---- MODULE Spec2Model ----
(***************************************************************************)
(* Finite-capacity scheduling engine of erp_system (services.py): the      *)
(* shift-calendar resolver, the calendar-aware duration allocator, the     *)
(* per-machine schedule state and the order / backlog scheduling engine.   *)
(*                                                                         *)
(* Time is counted in whole minutes since 00:00 of day 0; day 0 is a       *)
(* Monday (weekday 0).  Durations, setup times and capacities are whole    *)
(* hours, as the code keeps them in hours and converts with                *)
(* timedelta(hours=...).                                                   *)
(***************************************************************************)
EXTENDS Integers, Sequences, FiniteSets, TLC

VARIABLES
    calendar,           \* the ShiftCalendar of the calendar repository
    cal_call,           \* SpecCal: the last resolver / allocator call
    cal_result,         \* SpecCal: what that call returned
    ms,                 \* SpecAlloc: one MachineSchedule object
    alloc_call,         \* SpecAlloc: the last allocate call
    alloc_result,       \* SpecAlloc: what it returned or raised
    alloc_log,          \* SpecAlloc: the successful allocate calls of the session
    orders,             \* the order repository, in insertion order
    machine_schedules,  \* ERPService._machine_schedules
    planning_options,   \* ERPService.planning_options
    last_call,          \* the last service call and its outcome
    upcoming,           \* SpecUpcoming: the last get_upcoming_operations call
    inventory,          \* the inventory repository, in insertion order
    suppliers,          \* the supplier repository, in insertion order
    purchase_orders,    \* the purchase-order repository, in insertion order
    procurement_options,\* ERPService.procurement_options
    uuid_calls,         \* the uuid4 calls made so far
    mat_call,           \* the last material / procurement call and its outcome
    supplier_evaluations, \* the supplier-evaluation repository, in insertion order
    sup_call,           \* the last supplier-rating call and its outcome
    backlog_run         \* SpecRun: the backlog run in progress

calVars == <<cal_call, cal_result>>
allocVars == <<ms, alloc_call, alloc_result, alloc_log>>
svcVars == <<orders, machine_schedules, planning_options, last_call>>
qryVars == <<upcoming>>
matVars == <<inventory, suppliers, purchase_orders, procurement_options, uuid_calls, mat_call>>
supVars == <<supplier_evaluations, sup_call>>
runVars == <<backlog_run>>
vars == <<calendar, calVars, allocVars, svcVars, qryVars, matVars, supVars, runVars>>

\* no get_upcoming_operations call is followed
QryIdle == upcoming = 0

\* the material and procurement services are not followed
MatIdle ==
    /\ inventory = 0
    /\ suppliers = 0
    /\ purchase_orders = 0
    /\ procurement_options = 0
    /\ uuid_calls = 0
    /\ mat_call = 0

\* the supplier-rating service is not followed
SupIdle == supplier_evaluations = 0 /\ sup_call = 0

\* no backlog run is followed step by step
RunIdle == backlog_run = 0

----------------------------------------------------------------------------
(* Bounds of the model *)

\* Longest list of shifts of a calendar.
MaxShifts == 2
\* Number of allocate calls followed on one MachineSchedule.
MaxAllocs == 3
\* Number of service calls followed in one behaviour.
MaxCalls == 3
\* Number of service calls followed in one behaviour of the backlog runs.
MaxBacklogCalls == 2

----------------------------------------------------------------------------
(* datetime / date / time arithmetic *)

MinutesPerHour == 60 * 1
MinutesPerDay == 24 * 60
DaysPerWeek == 6 + 1

Max(a, b) == IF a >= b THEN a ELSE b
Min(a, b) == IF a <= b THEN a ELSE b

\* datetime.date()
DateOf(t) == t \div MinutesPerDay
\* date.weekday(): Monday is 0
WeekdayOf(day) == day % DaysPerWeek
\* datetime.combine(day, time_of_day)
Combine(day, tod) == day * MinutesPerDay + tod
\* timedelta(hours=h)
Hours(h) == h * MinutesPerHour
\* a time of day hh:00
Clock(hh) == hh * MinutesPerHour

----------------------------------------------------------------------------
(* Shift calendar resolver: _next_shift_window *)

\* range(0, 60): the number of days the resolver examines
HorizonDays == 60

\* The absent window (None).
NoWindow == [found |-> FALSE, start |-> 0, end |-> 0]

\* shift_start of a shift on a day
ShiftStartOn(day, shift) == Combine(day, shift.start_time)

\* shift_end of a shift on a day: rolled to the next day when end <= start
ShiftEndOn(day, shift) ==
    LET shift_start == Combine(day, shift.start_time)
        shift_end == Combine(day, shift.end_time)
    IN  IF shift_end <= shift_start THEN shift_end + MinutesPerDay ELSE shift_end

\* matching = [shift for shift in calendar.shifts if weekday in shift.weekdays]
\* a variant that takes every shift of the calendar, whatever its weekdays
EveryShift(cal, weekday) == cal.shifts

MatchingShifts(cal, weekday) ==
    SelectSeq(cal.shifts, LAMBDA shift : weekday \in shift.weekdays)

\* list.sort(key=start_time) is stable: an element goes after those of equal key
InsertByStart(sorted, shift) ==
    LET k == Cardinality({i \in 1..Len(sorted) :
                             sorted[i].start_time <= shift.start_time})
    IN  SubSeq(sorted, 1, k) \o <<shift>> \o SubSeq(sorted, k + 1, Len(sorted))

RECURSIVE SortByStart(_)
SortByStart(shifts) ==
    IF shifts = <<>> THEN <<>>
    ELSE InsertByStart(SortByStart(SubSeq(shifts, 1, Len(shifts) - 1)),
                       shifts[Len(shifts)])

\* the inner loop over the day's shifts: the first one that ends after reference
RECURSIVE FirstUsableShift(_, _, _)
FirstUsableShift(day, shifts, reference) ==
    IF shifts = <<>> THEN NoWindow
    ELSE IF ShiftEndOn(day, Head(shifts)) <= reference
         THEN FirstUsableShift(day, Tail(shifts), reference)
         ELSE [found |-> TRUE,
               start |-> Max(reference, ShiftStartOn(day, Head(shifts))),
               end   |-> ShiftEndOn(day, Head(shifts))]

\* a variant of the outer loop that does not look at the non-working days
RECURSIVE ScanEveryDay(_, _, _)
ScanEveryDay(cal, reference, day_offset) ==
    IF day_offset >= HorizonDays THEN NoWindow
    ELSE IF FirstUsableShift(DateOf(reference) + day_offset,
                             SortByStart(MatchingShifts(
                                 cal, WeekdayOf(DateOf(reference) + day_offset))),
                             reference).found
         THEN FirstUsableShift(DateOf(reference) + day_offset,
                               SortByStart(MatchingShifts(
                                   cal, WeekdayOf(DateOf(reference) + day_offset))),
                               reference)
         ELSE ScanEveryDay(cal, reference, day_offset + 1)

\* the outer loop over day_offset
RECURSIVE ScanDays(_, _, _)
ScanDays(cal, reference, day_offset) ==
    IF day_offset >= HorizonDays THEN NoWindow
    ELSE LET candidate_day == DateOf(reference) + day_offset
             matching == MatchingShifts(cal, WeekdayOf(candidate_day))
             hit == FirstUsableShift(candidate_day, SortByStart(matching), reference)
         IN  IF candidate_day \in cal.non_working_days
             THEN ScanDays(cal, reference, day_offset + 1)
             ELSE IF hit.found THEN hit
                  ELSE ScanDays(cal, reference, day_offset + 1)

next_shift_window(cal, reference) == ScanDays(cal, reference, 0)

----------------------------------------------------------------------------
(* Calendar-aware duration allocator: _allocate_with_calendar *)

\* The exceptions the scheduling code raises.
ValueError == "ValueError"
RuntimeError == "RuntimeError"
RepositoryError == "RepositoryError"
RecordNotFoundError == "RecordNotFoundError"

\* the classes an exception is an instance of: RecordNotFoundError derives from
\* RepositoryError, which derives from RuntimeError
ClassesOf(exc) ==
    IF exc = RecordNotFoundError THEN {RecordNotFoundError, RepositoryError, RuntimeError}
    ELSE IF exc = RepositoryError THEN {RepositoryError, RuntimeError}
    ELSE {exc}

\* start_time: Optional[datetime] = None
NoTime == -1

Span(start, end) == [ok |-> TRUE, error |-> "", start |-> start, end |-> end]
Raised(exc) == [ok |-> FALSE, error |-> exc, start |-> NoTime, end |-> NoTime]

\* the step by which the cursor passes a consumed window: timedelta(minutes=1)
WindowSkip == 1

\* the while loop; remaining is in minutes
RECURSIVE AllocateLoop(_, _, _, _)

\* the body of the loop once window = _next_shift_window(calendar, cursor) is known
ConsumeWindow(cal, cursor, remaining, start_time, window) ==
    IF ~window.found THEN Raised(RuntimeError)
    ELSE
      LET cur == Max(cursor, window.start)
          available == window.end - cur
          started == IF start_time = NoTime THEN cur ELSE start_time
          allocation == Min(available, remaining)
      IN  IF available <= 0
          THEN AllocateLoop(cal, window.end + WindowSkip, remaining, start_time)
          ELSE IF remaining - allocation <= 0
               THEN Span(started, cur + allocation)
               ELSE AllocateLoop(cal, window.end + WindowSkip,
                                 remaining - allocation, started)

AllocateLoop(cal, cursor, remaining, start_time) ==
    IF remaining <= 0 THEN Span(start_time, cursor)
    ELSE ConsumeWindow(cal, cursor, remaining, start_time,
                       next_shift_window(cal, cursor))

allocate_with_calendar(cal, reference, duration_hours) ==
    IF Hours(duration_hours) <= 0 THEN Raised(ValueError)
    ELSE AllocateLoop(cal, reference, Hours(duration_hours), NoTime)

----------------------------------------------------------------------------
(* Calendars, references and durations the resolver and allocator are run on *)

Weekdays == 0..4

\* Shift(name, start_time, end_time, weekdays); end < start is an overnight shift
ShiftPool ==
    { [name |-> "Early", start_time |-> Clock(6),  end_time |-> Clock(14), weekdays |-> Weekdays],
      [name |-> "Late",  start_time |-> Clock(14), end_time |-> Clock(22), weekdays |-> Weekdays],
      [name |-> "Night", start_time |-> Clock(22), end_time |-> Clock(6),  weekdays |-> Weekdays],
      [name |-> "Sat",   start_time |-> Clock(8),  end_time |-> Clock(12), weekdays |-> {5}] }

\* Shift.__post_init__: weekdays non-empty and in 0..6, end_time # start_time
ValidShift(shift) ==
    /\ shift.weekdays # {}
    /\ \A weekday \in shift.weekdays : weekday >= 0 /\ weekday <= 6
    /\ shift.end_time # shift.start_time

\* the lists of 1..MaxShifts different shifts (create_shift_calendar refuses an empty list)
ShiftLists ==
    { shifts \in UNION { [1..n -> ShiftPool] : n \in 1..MaxShifts } :
        /\ \A i \in 1..Len(shifts) : ValidShift(shifts[i])
        /\ \A i, j \in 1..Len(shifts) : i # j => shifts[i] # shifts[j] }

\* every date the model can reach
AllDays == 0..(3 * HorizonDays)

\* the sets of non-working dates; the last one leaves no working day at all
NonWorkingSets == { {}, {1}, {1, 2}, AllDays }

Calendars ==
    { [shifts |-> shifts, non_working_days |-> days] :
        shifts \in ShiftLists, days \in NonWorkingSets }

\* Mon 02:00, Mon 07:00, Tue 02:00, Tue 14:00, Fri 23:00, Sat 07:00, Sat 23:00
References ==
    { Combine(0, Clock(2)), Combine(0, Clock(7)), Combine(1, Clock(2)),
      Combine(1, Clock(14)), Combine(4, Clock(23)), Combine(5, Clock(7)),
      Combine(5, Clock(23)) }

\* duration_hours handed to the allocator
CalDurations == {-1, 0, 1, 8, 9, 20}

NoCalCall == [op |-> "none", reference |-> 0, duration_hours |-> 0]
NoCalResult == [window |-> NoWindow, span |-> Raised("")]

InitIdleCal ==
    /\ cal_call = NoCalCall
    /\ cal_result = NoCalResult

\* one call of _next_shift_window(calendar, reference)
ResolveWindow(reference) ==
    /\ cal_call' = [op |-> "next_shift_window", reference |-> reference,
                    duration_hours |-> 0]
    /\ cal_result' = [window |-> next_shift_window(calendar, reference),
                      span |-> Raised("")]
    /\ UNCHANGED <<calendar, allocVars, svcVars, qryVars, matVars, supVars, runVars>>

\* one call of _allocate_with_calendar(calendar, reference, duration_hours)
AllocateSpan(reference, duration_hours) ==
    /\ cal_call' = [op |-> "allocate_with_calendar", reference |-> reference,
                    duration_hours |-> duration_hours]
    /\ cal_result' = [window |-> NoWindow,
                      span |-> allocate_with_calendar(calendar, reference, duration_hours)]
    /\ UNCHANGED <<calendar, allocVars, svcVars, qryVars, matVars, supVars, runVars>>

SpecCalInit ==
    /\ calendar \in Calendars
    /\ InitIdleCal
    /\ ms = 0 /\ alloc_call = 0 /\ alloc_result = 0 /\ alloc_log = 0
    /\ orders = 0 /\ machine_schedules = 0 /\ planning_options = 0
    /\ last_call = 0
    /\ QryIdle
    /\ MatIdle
    /\ SupIdle
    /\ RunIdle

SpecCalNext ==
    \/ \E reference \in References : ResolveWindow(reference)
    \/ \E reference \in References, duration_hours \in CalDurations :
          AllocateSpan(reference, duration_hours)

SpecCal == SpecCalInit /\ [][SpecCalNext]_vars

----------------------------------------------------------------------------
(* Machine schedule state: MachineSchedule and MachineSchedule.allocate *)

\* calendar: Optional[ShiftCalendar] is None
NoCalendar == "None"
\* the id of the calendar of the repository
CalendarId == "cal1"

\* ScheduledOperation(order_id, operation_id, machine_id, start, end, exceeds_capacity, order_priority)
ScheduledOperation(order_id, operation_id, machine_id, start, end, exceeds, priority) ==
    [order_id |-> order_id, operation_id |-> operation_id, machine_id |-> machine_id,
     start |-> start, end |-> end, exceeds_capacity |-> exceeds,
     order_priority |-> priority]

NoScheduledOperation == ScheduledOperation("", "", "", NoTime, NoTime, FALSE, 0)

\* MachineSchedule(machine, calendar, next_available): total 0.0, operations []
MachineSchedule(machine, calendar_ref, next_available) ==
    [machine |-> machine, calendar |-> calendar_ref, next_available |-> next_available,
     total_allocated_hours |-> 0, operations |-> <<>>]

\* setup_hours = max(operation.setup_time_hours * setup_time_factor, 0.0)
SetupHours(operation, setup_time_factor) ==
    Max(operation.setup_time_hours * setup_time_factor, 0)

\* a variant that adds the setup time without the factor
DurationWithoutFactor(operation, setup_time_factor) ==
    operation.duration_hours + Max(operation.setup_time_hours, 0)

\* duration = operation.duration_hours + setup_hours
EffectiveDuration(operation, setup_time_factor) ==
    operation.duration_hours + SetupHours(operation, setup_time_factor)

\* a variant that flags hours equal to the capacity as well
ReachesCapacity(total_allocated_hours, machine) ==
    total_allocated_hours >= machine.capacity_hours_per_week

\* exceeds_capacity = self.total_allocated_hours > self.machine.capacity_hours_per_week
ExceedsCapacity(total_allocated_hours, machine) ==
    total_allocated_hours > machine.capacity_hours_per_week

\* a variant without any gap
NoGap(gap_minutes) == 0 * gap_minutes

\* gap_delta = timedelta(minutes=gap_minutes) if gap_minutes > 0 else timedelta(0)
GapDelta(gap_minutes) == IF gap_minutes > 0 THEN gap_minutes ELSE 0

\* the span of an allocation: through the calendar when one is attached
AllocationSpan(schedule, cal, start_candidate, duration) ==
    IF schedule.calendar # NoCalendar
    THEN allocate_with_calendar(cal, start_candidate, duration)
    ELSE Span(start_candidate, start_candidate + Hours(duration))

\* a variant that records the allocation without moving next_available
BookWithoutCursor(schedule, order_id, operation, priority, gap_minutes, duration, span) ==
    IF ~span.ok
    THEN [ok |-> FALSE, error |-> span.error, schedule |-> schedule,
          scheduled |-> NoScheduledOperation]
    ELSE [ok |-> TRUE, error |-> "",
          schedule |-> [schedule EXCEPT
                          !.total_allocated_hours = @ + duration,
                          !.operations =
                              Append(@, ScheduledOperation(
                                  order_id, operation.id, schedule.machine.id,
                                  span.start, span.end,
                                  ExceedsCapacity(schedule.total_allocated_hours
                                                     + duration, schedule.machine),
                                  priority))],
          scheduled |-> ScheduledOperation(
                            order_id, operation.id, schedule.machine.id,
                            span.start, span.end,
                            ExceedsCapacity(schedule.total_allocated_hours + duration,
                                            schedule.machine),
                            priority)]

\* the second half of allocate, once the span (start_time, end_time) is known:
\* the cursor, the cumulative hours and the ScheduledOperation recorded
Book(schedule, order_id, operation, priority, gap_minutes, duration, span) ==
    LET total == schedule.total_allocated_hours + duration
        scheduled == ScheduledOperation(order_id, operation.id, schedule.machine.id,
                                        span.start, span.end,
                                        ExceedsCapacity(total, schedule.machine),
                                        priority)
    IN  IF ~span.ok
        THEN [ok |-> FALSE, error |-> span.error, schedule |-> schedule,
              scheduled |-> NoScheduledOperation]
        ELSE [ok |-> TRUE, error |-> "",
              schedule |-> [schedule EXCEPT
                              !.next_available = span.end + GapDelta(gap_minutes),
                              !.total_allocated_hours = total,
                              !.operations = Append(@, scheduled)],
              scheduled |-> scheduled]

\* a variant that moves next_available to the start candidate before the
\* duration is checked
AllocateCursorFirst(schedule, cal, order_id, operation, earliest_start, priority, setup_time_factor, gap_minutes) ==
    IF EffectiveDuration(operation, setup_time_factor) <= 0
    THEN [ok |-> FALSE, error |-> ValueError,
          schedule |-> [schedule EXCEPT !.next_available = Max(@, earliest_start)],
          scheduled |-> NoScheduledOperation]
    ELSE Book(schedule, order_id, operation, priority, gap_minutes,
              EffectiveDuration(operation, setup_time_factor),
              AllocationSpan(schedule, cal,
                             Max(schedule.next_available, earliest_start),
                             EffectiveDuration(operation, setup_time_factor)))

\* MachineSchedule.allocate: the schedule after the call and what it returned;
\* an exception leaves the schedule as it was (nothing is assigned before it)
allocate(schedule, cal, order_id, operation, earliest_start, priority, setup_time_factor, gap_minutes) ==
    LET start_candidate == Max(schedule.next_available, earliest_start)
        duration == EffectiveDuration(operation, setup_time_factor)
    IN  IF duration <= 0
        THEN [ok |-> FALSE, error |-> ValueError, schedule |-> schedule,
              scheduled |-> NoScheduledOperation]
        ELSE Book(schedule, order_id, operation, priority, gap_minutes, duration,
                  AllocationSpan(schedule, cal, start_candidate, duration))

----------------------------------------------------------------------------
(* Claims about the shift calendar resolver, checked under SpecCal *)

ResolverReturned ==
    /\ cal_call.op = "next_shift_window"
    /\ cal_result.window.found

\* the window is the one shift i of the calendar yields on the day the window starts
ProducedBy(window, reference, i) ==
    LET day == DateOf(window.start)
        shift == calendar.shifts[i]
    IN  /\ WeekdayOf(day) \in shift.weekdays
        /\ window.end = ShiftEndOn(day, shift)
        /\ window.start = Max(reference, ShiftStartOn(day, shift))

\* C4: the date on which a returned window starts is no configured non-working
\* date, and its weekday is in the weekday set of the shift that produced the window.
C4_WindowOnWorkingDay ==
    ResolverReturned =>
        /\ DateOf(cal_result.window.start) \notin calendar.non_working_days
        /\ \E i \in 1..Len(calendar.shifts) :
              ProducedBy(cal_result.window, cal_call.reference, i)

\* the resolver skipped the reference's own date (a non-working date, or a
\* weekday no shift covers) and returned a window on a later one
C4_Witness ==
    /\ ResolverReturned
    /\ \/ DateOf(cal_call.reference) \in calendar.non_working_days
       \/ \A i \in 1..Len(calendar.shifts) :
             WeekdayOf(DateOf(cal_call.reference)) \notin calendar.shifts[i].weekdays
    /\ DateOf(cal_result.window.start) > DateOf(cal_call.reference)

\* shift i, begun on day, is a working shift of the calendar with working time
\* at some instant t with from <= t < to
WorksWithin(i, day, from, to) ==
    LET shift == calendar.shifts[i] IN
    /\ day \notin calendar.non_working_days
    /\ WeekdayOf(day) \in shift.weekdays
    /\ Max(ShiftStartOn(day, shift), from) < Min(ShiftEndOn(day, shift), to)

\* C5: the returned window is the earliest working window at or after the
\* reference: start = max(reference, start of the producing shift), start < end,
\* end after the reference, and no shift of the calendar, an overnight shift begun
\* on the previous day included, works at an instant between the reference and
\* the returned start.
C5_EarliestWindow ==
    ResolverReturned =>
        LET window == cal_result.window
            reference == cal_call.reference
        IN  /\ \E i \in 1..Len(calendar.shifts) : ProducedBy(window, reference, i)
            /\ window.start < window.end
            /\ window.end > reference
            /\ \A i \in 1..Len(calendar.shifts) :
                 \A day \in (DateOf(reference) - 1)..DateOf(window.start) :
                    ~WorksWithin(i, day, reference, window.start)

----------------------------------------------------------------------------
(* SpecAlloc: sequences of allocate calls on one MachineSchedule *)

\* datetime.combine(date.today(), DEFAULT_SHIFT_START): Monday 06:00
StartReference == Combine(0, Clock(6))

\* Operation(id, process, duration_hours, setup_time_hours)
Operation(id, process, duration_hours, setup_time_hours) ==
    [id |-> id, process |-> process, duration_hours |-> duration_hours,
     setup_time_hours |-> setup_time_hours]

\* Machine(id, processes, capacity_hours_per_week, shift_calendar_id)
Machine(id, processes, capacity, shift_calendar_id) ==
    [id |-> id, processes |-> processes, capacity_hours_per_week |-> capacity,
     shift_calendar_id |-> shift_calendar_id]

\* the operations handed to allocate; build_operation checks neither number
AllocOperations ==
    { Operation("a", "Turning", 2, 0),
      Operation("b", "Turning", 1, 1),
      Operation("c", "Turning", 0, 1),
      Operation("d", "Turning", -1, 1),
      Operation("e", "Turning", 0, 0) }

\* PlanningOptions.setup_time_factor (>= 0) and gap_between_operations_minutes (>= 0)
SetupFactors == {0, 1, 2}
GapMinutes == {0, 30}

EarliestStarts == { StartReference, Combine(1, Clock(2)) }

AllocMachines ==
    { Machine("m1", <<"Turning">>, 3, NoCalendar),
      Machine("m1", <<"Turning">>, 3, CalendarId) }

EarlyShift == CHOOSE shift \in ShiftPool : shift.name = "Early"
LateShift == CHOOSE shift \in ShiftPool : shift.name = "Late"

AllocCalendars ==
    { [shifts |-> <<EarlyShift>>, non_working_days |-> {}],
      [shifts |-> <<EarlyShift, LateShift>>, non_working_days |-> {1}],
      [shifts |-> <<EarlyShift>>, non_working_days |-> AllDays] }

NoAllocResult == [ok |-> FALSE, error |-> "", scheduled |-> NoScheduledOperation]

SpecAllocInit ==
    /\ \E machine \in AllocMachines :
         /\ ms = MachineSchedule(machine, machine.shift_calendar_id, StartReference)
         /\ calendar \in IF machine.shift_calendar_id = NoCalendar
                         THEN { [shifts |-> <<EarlyShift>>, non_working_days |-> {}] }
                         ELSE AllocCalendars
    /\ \E setup_time_factor \in SetupFactors, gap_minutes \in GapMinutes :
         alloc_call = [n |-> 0, operation |-> Operation("", "", 0, 0),
                       earliest_start |-> StartReference,
                       setup_time_factor |-> setup_time_factor,
                       gap_minutes |-> gap_minutes]
    /\ alloc_result = NoAllocResult
    /\ alloc_log = <<>>
    /\ cal_call = 0 /\ cal_result = 0
    /\ orders = 0 /\ machine_schedules = 0 /\ planning_options = 0
    /\ last_call = 0
    /\ QryIdle
    /\ MatIdle
    /\ SupIdle
    /\ RunIdle

\* one call ms.allocate(order_id, operation, earliest_start, priority, ...);
\* alloc_log keeps the operation and factor of every call that returned
Allocate(operation, earliest_start) ==
    \E result \in {allocate(ms, calendar, "o1", operation, earliest_start, 2,
                            alloc_call.setup_time_factor, alloc_call.gap_minutes)} :
        /\ alloc_call.n < MaxAllocs
        /\ alloc_call' = [alloc_call EXCEPT !.n = @ + 1, !.operation = operation,
                                            !.earliest_start = earliest_start]
        /\ ms' = result.schedule
        /\ alloc_result' = [ok |-> result.ok, error |-> result.error,
                            scheduled |-> result.scheduled]
        /\ alloc_log' = IF result.ok
                        THEN Append(alloc_log,
                                    [operation |-> operation,
                                     setup_time_factor |-> alloc_call.setup_time_factor,
                                     total_after |-> result.schedule.total_allocated_hours])
                        ELSE alloc_log
        /\ UNCHANGED <<calendar, calVars, svcVars, qryVars, matVars, supVars, runVars>>

\* reset_machine_schedules and the lazy creation of the next session's schedule
ResetSchedule ==
    /\ alloc_log # <<>>
    /\ ms' = MachineSchedule(ms.machine, ms.calendar, StartReference)
    /\ alloc_log' = <<>>
    /\ alloc_result' = NoAllocResult
    /\ UNCHANGED <<alloc_call, calendar, calVars, svcVars, qryVars, matVars, supVars, runVars>>

SpecAllocNext ==
    \/ \E operation \in AllocOperations, earliest_start \in EarliestStarts :
          Allocate(operation, earliest_start)
    \/ ResetSchedule

SpecAlloc == SpecAllocInit /\ [][SpecAllocNext]_vars

----------------------------------------------------------------------------
(* Claims about MachineSchedule.allocate, checked under SpecAlloc *)

\* the sum over the first n logged allocations of duration + setup x factor
RECURSIVE SumOfAllocations(_, _)
SumOfAllocations(log, n) ==
    IF n = 0 THEN 0
    ELSE SumOfAllocations(log, n - 1)
         + log[n].operation.duration_hours
         + log[n].operation.setup_time_hours * log[n].setup_time_factor

\* C1: within a session the machine's cumulative allocated hours equal the sum,
\* over the successful allocations, of duration + setup hours x factor, and the
\* value never decreases from one allocation to the next.
C1_CumulativeHours ==
    /\ ms.total_allocated_hours = SumOfAllocations(alloc_log, Len(alloc_log))
    /\ \A i \in 1..Len(alloc_log) :
          /\ alloc_log[i].total_after = SumOfAllocations(alloc_log, i)
          /\ i > 1 => alloc_log[i].total_after >= alloc_log[i - 1].total_after

\* three allocations in one session, one of them with setup time and a factor of 2
C1_Witness ==
    /\ Len(alloc_log) = 3
    /\ \E i \in 1..3 : /\ alloc_log[i].operation.setup_time_hours > 0
                       /\ alloc_log[i].setup_time_factor = 2
    /\ ms.total_allocated_hours > 3

\* C2: the exceeds-capacity flag of every ScheduledOperation is true exactly when
\* the cumulative hours including that allocation strictly exceed the weekly
\* capacity; hours equal to the capacity do not set it, and the flagged
\* allocation is made all the same.
C2_ExceedsCapacityFlag ==
    /\ Len(ms.operations) = Len(alloc_log)
    /\ \A i \in 1..Len(ms.operations) :
          ms.operations[i].exceeds_capacity
             <=> (SumOfAllocations(alloc_log, i) > ms.machine.capacity_hours_per_week)
    /\ \A i, j \in 1..Len(ms.operations) :
          (i < j /\ ms.operations[i].exceeds_capacity)
             => ms.operations[j].exceeds_capacity

\* the hours reach the capacity exactly without the flag, and the next
\* allocation crosses it, is flagged and is recorded
C2_Witness ==
    /\ Len(ms.operations) = 3
    /\ SumOfAllocations(alloc_log, 2) = ms.machine.capacity_hours_per_week
    /\ ~ms.operations[2].exceeds_capacity
    /\ ms.operations[3].exceeds_capacity
    /\ alloc_result.ok /\ alloc_result.scheduled = ms.operations[3]

\* C6: allocating an operation whose duration is <= 0 fails with a validation
\* error, whatever its setup time and the factor, and produces no ScheduledOperation.
C6_NonPositiveDurationFails ==
    (alloc_call.n > 0 /\ alloc_call.operation.duration_hours <= 0) =>
        /\ ~alloc_result.ok
        /\ alloc_result.error = ValueError
        /\ alloc_result.scheduled = NoScheduledOperation

----------------------------------------------------------------------------
(* The service: machines, orders, planning options *)

\* the machine repository, in registration order; no machine lists "Welding"
Machines ==
    << Machine("m1", <<"Turning">>, 3, NoCalendar),
       Machine("m2", <<"Turning", "Milling">>, 4, CalendarId) >>

\* InMemoryRepository.get on the machine repository
MachineById(machine_id) ==
    Machines[CHOOSE i \in 1..Len(Machines) : Machines[i].id = machine_id]

\* OrderStatus
PLANNED == "Planned"
RELEASED == "Released"
IN_PROGRESS == "In Progress"
COMPLETED == "Completed"
CANCELLED == "Cancelled"
OrderStatus == {PLANNED, RELEASED, IN_PROGRESS, COMPLETED, CANCELLED}

\* OrderPriority (IntEnum)
LOW == 1
NORMAL == 2
HIGH == 3
CRITICAL == 4
OrderPriority == {LOW, NORMAL, HIGH, CRITICAL}

\* assigned_machine_id: Optional[str] = None
NoMachine == "None"

\* OperationPlan(operation): the three scheduling fields start as None
OperationPlan(operation) ==
    [operation |-> operation, assigned_machine_id |-> NoMachine,
     scheduled_start |-> NoTime, scheduled_end |-> NoTime]

\* ProductionOrder as create_production_order builds it: status Planned
ProductionOrder(id, due_date, priority, operations, created_at) ==
    [id |-> id, due_date |-> due_date, status |-> PLANNED, priority |-> priority,
     operations |-> [k \in 1..Len(operations) |-> OperationPlan(operations[k])],
     created_at |-> created_at]

\* PlanningOptions; the two weights are kept in hundredths (1.0 is 100)
PlanningOptions(priority_weight, due_date_weight, horizon_days, max_orders_per_cycle, auto_release_orders, setup_time_factor, gap_minutes) ==
    [priority_weight |-> priority_weight, due_date_weight |-> due_date_weight,
     horizon_days |-> horizon_days, max_orders_per_cycle |-> max_orders_per_cycle,
     auto_release_orders |-> auto_release_orders,
     setup_time_factor |-> setup_time_factor,
     gap_between_operations_minutes |-> gap_minutes]

\* date.today(): day 0
Today == 0 * 1

\* Optional[int] arguments: None is the empty set, a value v is {v}
None == {}
Some(v) == {v}
ValueOf(opt) == CHOOSE v \in opt : TRUE

----------------------------------------------------------------------------
(* Eligible machines and the machine schedule cache *)

\* a variant that takes every machine, whatever its processes
EveryMachine(process) == Machines

\* _eligible_machines: the machines listing the process, in registration order
eligible_machines(process) ==
    SelectSeq(Machines,
              LAMBDA machine : \E i \in 1..Len(machine.processes) :
                                   machine.processes[i] = process)

\* _get_machine_schedule: the cached schedule, or a new one seeded at start_reference
get_machine_schedule(schedules, machine_id, start_reference) ==
    IF machine_id \in DOMAIN schedules THEN schedules
    ELSE (machine_id :> MachineSchedule(MachineById(machine_id),
                                        MachineById(machine_id).shift_calendar_id,
                                        start_reference)) @@ schedules

\* the list comprehension calling _get_machine_schedule for every candidate
RECURSIVE WithCandidateSchedules(_, _, _)
WithCandidateSchedules(schedules, machines, start_reference) ==
    IF machines = <<>> THEN schedules
    ELSE WithCandidateSchedules(
             get_machine_schedule(schedules, Head(machines).id, start_reference),
             Tail(machines), start_reference)

\* candidate_schedules.sort(key=total_allocated_hours), stable
InsertByLoad(schedules, sorted, machine_id) ==
    LET k == Cardinality({i \in 1..Len(sorted) :
                 schedules[sorted[i]].total_allocated_hours
                    <= schedules[machine_id].total_allocated_hours})
    IN  SubSeq(sorted, 1, k) \o <<machine_id>> \o SubSeq(sorted, k + 1, Len(sorted))

RECURSIVE SortByLoad(_, _)
SortByLoad(schedules, machine_ids) ==
    IF machine_ids = <<>> THEN <<>>
    ELSE InsertByLoad(schedules,
                      SortByLoad(schedules, SubSeq(machine_ids, 1, Len(machine_ids) - 1)),
                      machine_ids[Len(machine_ids)])

\* a variant that takes the machine registered first
FirstRegistered(schedules, machines) == Head(machines).id

\* candidate_schedules[0] after the sort
SelectMachine(schedules, machines) ==
    Head(SortByLoad(schedules, [i \in 1..Len(machines) |-> machines[i].id]))

----------------------------------------------------------------------------
(* Scheduling engine: schedule_operations *)

\* a variant whose load map lists every machine with a cached schedule
SummaryOfCachedMachines(order_id, scheduled_operations, schedules, used_machine_ids) ==
    [order_id |-> order_id,
     scheduled_operations |-> scheduled_operations,
     machine_loads |-> [id \in DOMAIN schedules |-> schedules[id].total_allocated_hours],
     overloaded_machines |->
         [id \in {id \in DOMAIN schedules :
                     schedules[id].total_allocated_hours
                        > schedules[id].machine.capacity_hours_per_week}
             |-> Max(0, schedules[id].total_allocated_hours
                           - schedules[id].machine.capacity_hours_per_week)]]

\* ScheduleSummary(order_id, scheduled_operations, machine_loads, overloaded_machines)
ScheduleSummary(order_id, scheduled_operations, schedules, used_machine_ids) ==
    LET used == {used_machine_ids[i] : i \in 1..Len(used_machine_ids)}
        over == {id \in used : schedules[id].total_allocated_hours
                                  > schedules[id].machine.capacity_hours_per_week}
    IN  [order_id |-> order_id,
         scheduled_operations |-> scheduled_operations,
         machine_loads |-> [id \in used |-> schedules[id].total_allocated_hours],
         overloaded_machines |->
             [id \in over |-> Max(0, schedules[id].total_allocated_hours
                                        - schedules[id].machine.capacity_hours_per_week)]]

NoSummary == [order_id |-> "", scheduled_operations |-> <<>>,
              machine_loads |-> <<>>, overloaded_machines |-> <<>>]

\* the position of an order in the repository, 0 when the id is unknown
IndexOfOrder(order_list, order_id) ==
    IF \E i \in 1..Len(order_list) : order_list[i].id = order_id
    THEN CHOOSE i \in 1..Len(order_list) : order_list[i].id = order_id
    ELSE 0

\* the end of a pass: what the pass writes once schedule.allocate has returned
\* or raised; the schedules created for the candidates stay in the cache
RecordPlan(st, options, oi, k, schedules, chosen, result) ==
    IF ~result.ok
    THEN [st EXCEPT !.schedules = schedules, !.ok = FALSE, !.error = result.error]
    ELSE [st EXCEPT
            !.schedules = [schedules EXCEPT ![chosen] = result.schedule],
            !.orders[oi].operations[k] =
                [@ EXCEPT !.assigned_machine_id = result.scheduled.machine_id,
                          !.scheduled_start = result.scheduled.start,
                          !.scheduled_end = result.scheduled.end],
            !.scheduled_operations = Append(@, result.scheduled),
            !.used_machine_ids = Append(@, chosen),
            !.earliest_start = result.scheduled.end
                + GapDelta(Max(options.gap_between_operations_minutes, 0))]

\* the middle of a pass: the least loaded candidate allocates the operation
PlanOnCandidates(st, cal, options, oi, k, schedules) ==
    LET order == st.orders[oi]
        plan == order.operations[k]
        chosen == SelectMachine(schedules, eligible_machines(plan.operation.process))
    IN  RecordPlan(st, options, oi, k, schedules, chosen,
                   allocate(schedules[chosen], cal, order.id, plan.operation,
                            st.earliest_start, order.priority,
                            Max(options.setup_time_factor, 0),
                            Max(options.gap_between_operations_minutes, 0)))

\* one pass of the loop "for plan in order.operations", for plan k of order oi.
\* Every assignment of the pass is applied in place, so what was written before
\* an exception stays written.
PlanStep(st, cal, options, oi, k, start_reference) ==
    IF eligible_machines(st.orders[oi].operations[k].operation.process) = <<>>
    THEN [st EXCEPT !.ok = FALSE, !.error = RecordNotFoundError]
    ELSE PlanOnCandidates(st, cal, options, oi, k,
             WithCandidateSchedules(
                 st.schedules,
                 eligible_machines(st.orders[oi].operations[k].operation.process),
                 start_reference))

RECURSIVE PlanLoop(_, _, _, _, _, _)
PlanLoop(st, cal, options, oi, k, start_reference) ==
    IF ~st.ok \/ k > Len(st.orders[oi].operations) THEN st
    ELSE PlanLoop(PlanStep(st, cal, options, oi, k, start_reference),
                  cal, options, oi, k + 1, start_reference)

\* start_reference or datetime.combine(date.today(), default_start)
StartOrDefault(start_reference) ==
    IF start_reference = NoTime THEN Combine(Today, Clock(6)) ELSE start_reference

\* a variant that releases the order whatever the option and the status
AlwaysRelease(order, options) == [order EXCEPT !.status = RELEASED]

\* the auto-release after the loop
AutoRelease(order, options) ==
    IF options.auto_release_orders /\ order.status = PLANNED
    THEN [order EXCEPT !.status = RELEASED]
    ELSE order

\* what follows the loop: the exception propagates, or the order is released
\* and the summary built
AfterPlans(st, options, oi, order_id) ==
    IF ~st.ok
    THEN [orders |-> st.orders, schedules |-> st.schedules, ok |-> FALSE,
          error |-> st.error, summary |-> NoSummary]
    ELSE [orders |-> [st.orders EXCEPT ![oi] = AutoRelease(@, options)],
          schedules |-> st.schedules, ok |-> TRUE, error |-> "",
          summary |-> ScheduleSummary(order_id, st.scheduled_operations,
                                      st.schedules, st.used_machine_ids)]

\* the outcome of a call with the schedule cache restored when it failed
RestoreOnFailure(r, schedules) ==
    IF r.ok THEN r ELSE [r EXCEPT !.schedules = schedules]

\* a variant that restores the schedule cache when the call fails
ScheduleOrRollBack(order_list, schedules, cal, options, order_id, start_reference) ==
    IF IndexOfOrder(order_list, order_id) = 0
    THEN [orders |-> order_list, schedules |-> schedules, ok |-> FALSE,
          error |-> RecordNotFoundError, summary |-> NoSummary]
    ELSE RestoreOnFailure(
             AfterPlans(PlanLoop([orders |-> order_list, schedules |-> schedules,
                                  earliest_start |-> StartOrDefault(start_reference),
                                  scheduled_operations |-> <<>>,
                                  used_machine_ids |-> <<>>, ok |-> TRUE,
                                  error |-> ""],
                                 cal, options, IndexOfOrder(order_list, order_id), 1,
                                 StartOrDefault(start_reference)),
                        options, IndexOfOrder(order_list, order_id), order_id),
             schedules)

\* schedule_operations(order_id, start_reference=...): the repository and the
\* schedule cache after the call, and the summary returned or the exception raised
schedule_operations(order_list, schedules, cal, options, order_id, start_reference) ==
    LET oi == IndexOfOrder(order_list, order_id)
        start == StartOrDefault(start_reference)
        st0 == [orders |-> order_list, schedules |-> schedules,
                earliest_start |-> start, scheduled_operations |-> <<>>,
                used_machine_ids |-> <<>>, ok |-> TRUE, error |-> ""]
    IN  IF oi = 0
        THEN [orders |-> order_list, schedules |-> schedules, ok |-> FALSE,
              error |-> RecordNotFoundError, summary |-> NoSummary]
        ELSE AfterPlans(PlanLoop(st0, cal, options, oi, 1, start), options, oi,
                        order_id)

----------------------------------------------------------------------------
(* Backlog prioritizer and schedule_backlog *)

\* date.toordinal(): day 0 is ordinal 1
toordinal(day) == day + 1

\* a variant that puts the due date score first
DueDateFirstKey(order, priority_weight, due_weight) ==
    << toordinal(order.due_date) * due_weight,
       (0 - order.priority) * priority_weight,
       order.created_at >>

\* a variant that leaves the due date out of the key
KeyWithoutDueDate(order, priority_weight, due_weight) ==
    << (0 - order.priority) * priority_weight,
       0 * due_weight,
       order.created_at >>

\* backlog_key(order) = (priority_score, due_date_score, created_at)
backlog_key(order, priority_weight, due_weight) ==
    << (0 - order.priority) * priority_weight,
       toordinal(order.due_date) * due_weight,
       order.created_at >>

\* tuple comparison a <= b, component by component
KeyLeq(a, b) ==
    \/ a[1] < b[1]
    \/ a[1] = b[1] /\ a[2] < b[2]
    \/ a[1] = b[1] /\ a[2] = b[2] /\ a[3] <= b[3]

\* backlog_orders.sort(key=backlog_key), stable
InsertByKey(sorted, order, priority_weight, due_weight) ==
    LET k == Cardinality({i \in 1..Len(sorted) :
                 KeyLeq(backlog_key(sorted[i], priority_weight, due_weight),
                        backlog_key(order, priority_weight, due_weight))})
    IN  SubSeq(sorted, 1, k) \o <<order>> \o SubSeq(sorted, k + 1, Len(sorted))

RECURSIVE SortBacklog(_, _, _)
SortBacklog(order_list, priority_weight, due_weight) ==
    IF order_list = <<>> THEN <<>>
    ELSE InsertByKey(SortBacklog(SubSeq(order_list, 1, Len(order_list) - 1),
                                 priority_weight, due_weight),
                     order_list[Len(order_list)], priority_weight, due_weight)

\* horizon = options.horizon_days if horizon_days is None else max(horizon_days, 0)
EffectiveHorizon(options, horizon_days) ==
    IF horizon_days = None THEN options.horizon_days ELSE Max(ValueOf(horizon_days), 0)

\* limit = options.max_orders_per_cycle if max_orders is None else max(max_orders, 0)
EffectiveLimit(options, max_orders) ==
    IF max_orders = None THEN options.max_orders_per_cycle ELSE Max(ValueOf(max_orders), 0)

\* a variant that keeps the orders of every status
AllOrders(order_list) == order_list

\* the status filter
OpenOrders(order_list) ==
    SelectSeq(order_list, LAMBDA order : order.status \notin {COMPLETED, CANCELLED})

\* a variant that keeps only the orders due within the horizon
DueWithinHorizon(order_list, horizon) ==
    IF horizon > 0
    THEN SelectSeq(order_list, LAMBDA order : order.due_date <= Today + horizon)
    ELSE order_list

\* the horizon filter: due within the horizon, or priority High / Critical
WithinHorizon(order_list, horizon) ==
    IF horizon > 0
    THEN SelectSeq(order_list,
                   LAMBDA order : \/ order.due_date <= Today + horizon
                                  \/ order.priority >= HIGH)
    ELSE order_list

\* backlog_orders[:limit] when limit > 0
Truncate(order_list, limit) ==
    IF limit > 0 THEN SubSeq(order_list, 1, Min(limit, Len(order_list)))
    ELSE order_list

\* a variant that applies the cap before the sort
CapBeforeSort(order_list, options, horizon_days, max_orders) ==
    SortBacklog(Truncate(WithinHorizon(OpenOrders(order_list),
                                       EffectiveHorizon(options, horizon_days)),
                         EffectiveLimit(options, max_orders)),
                Max(options.priority_weight, 1),
                Max(options.due_date_weight, 0))

\* the list schedule_backlog loops over: filters, sort, cap
BacklogOrders(order_list, options, horizon_days, max_orders) ==
    Truncate(SortBacklog(WithinHorizon(OpenOrders(order_list),
                                       EffectiveHorizon(options, horizon_days)),
                         Max(options.priority_weight, 1),
                         Max(options.due_date_weight, 0)),
             EffectiveLimit(options, max_orders))

\* for order in backlog_orders: summaries[order.id] = schedule_operations(...);
\* an exception ends the loop and the call, and the summaries dict is lost with it
AfterOrder(run, order_id, r) ==
    [orders |-> r.orders, schedules |-> r.schedules, ok |-> r.ok, error |-> r.error,
     sequence |-> Append(run.sequence, order_id),
     summaries |-> IF r.ok THEN Append(run.summaries, r.summary) ELSE <<>>]

RECURSIVE BacklogLoop(_, _, _, _, _, _)
BacklogLoop(run, backlog, i, cal, options, start_reference) ==
    IF ~run.ok \/ i > Len(backlog) THEN run
    ELSE BacklogLoop(AfterOrder(run, backlog[i].id,
                                schedule_operations(run.orders, run.schedules, cal,
                                                    options, backlog[i].id,
                                                    start_reference)),
                     backlog, i + 1, cal, options, start_reference)

\* a variant that clears the schedule of the machine registered first only
ClearFirstMachine(schedules) ==
    [id \in DOMAIN schedules \ {Machines[1].id} |-> schedules[id]]

\* a variant that keeps the cached schedules
KeepSchedules(schedules) == schedules

\* reset_machine_schedules: self._machine_schedules.clear()
reset_machine_schedules(schedules) == <<>>

\* schedule_backlog(start_reference=..., horizon_days=..., max_orders=...)
schedule_backlog(order_list, schedules, cal, options, start_reference, horizon_days, max_orders) ==
    BacklogLoop([orders |-> order_list, schedules |-> reset_machine_schedules(schedules),
                 ok |-> TRUE, error |-> "", sequence |-> <<>>, summaries |-> <<>>],
                BacklogOrders(order_list, options, horizon_days, max_orders),
                1, cal, options, StartOrDefault(start_reference))

----------------------------------------------------------------------------
(* The service calls *)

\* the record of a service call: its arguments, the order ids schedule_operations
\* was called for (in call order), and the summaries returned to the caller
Call(n, op, order_id, start_reference, horizon_days, max_orders, ok, error, sequence, summaries, repeated) ==
    [n |-> n, op |-> op, order_id |-> order_id, start_reference |-> start_reference,
     horizon_days |-> horizon_days, max_orders |-> max_orders, ok |-> ok,
     error |-> error, sequence |-> sequence, summaries |-> summaries,
     repeated |-> repeated]

NoCall == Call(0, "none", "", NoTime, None, None, TRUE, "", <<>>, <<>>, FALSE)

\* a call that schedules nothing
PlainCall(op, order_id) ==
    Call(last_call.n + 1, op, order_id, NoTime, None, None, TRUE, "", <<>>, <<>>, FALSE)

\* ERPService.schedule_operations(order_id, start_reference=start_reference)
ScheduleOrder(order_id, start_reference) ==
    \E r \in {schedule_operations(orders, machine_schedules, calendar, planning_options,
                                  order_id, start_reference)} :
        /\ orders' = r.orders
        /\ machine_schedules' = r.schedules
        /\ last_call' = Call(last_call.n + 1, "schedule_operations", order_id,
                             start_reference, None, None, r.ok, r.error, <<order_id>>,
                             IF r.ok THEN <<r.summary>> ELSE <<>>, FALSE)
        /\ UNCHANGED <<calendar, planning_options, calVars, allocVars, qryVars, matVars, supVars, runVars>>

\* ERPService.schedule_backlog(...); repeated: the call before was the same call
ScheduleBacklog(start_reference, horizon_days, max_orders) ==
    \E r \in {schedule_backlog(orders, machine_schedules, calendar, planning_options,
                               start_reference, horizon_days, max_orders)} :
        /\ orders' = r.orders
        /\ machine_schedules' = r.schedules
        /\ last_call' = Call(last_call.n + 1, "schedule_backlog", "", start_reference,
                             horizon_days, max_orders, r.ok, r.error, r.sequence,
                             r.summaries,
                             /\ last_call.op = "schedule_backlog"
                             /\ last_call.start_reference = start_reference
                             /\ last_call.horizon_days = horizon_days
                             /\ last_call.max_orders = max_orders)
        /\ UNCHANGED <<calendar, planning_options, calVars, allocVars, qryVars, matVars, supVars, runVars>>

\* ERPService.reset_machine_schedules()
ResetMachineSchedules ==
    /\ machine_schedules' = reset_machine_schedules(machine_schedules)
    /\ last_call' = PlainCall("reset_machine_schedules", "")
    /\ UNCHANGED <<orders, calendar, planning_options, calVars, allocVars, qryVars, matVars, supVars, runVars>>

\* ERPService.update_order_status(order_id, status)
UpdateOrderStatus(order_id, status) ==
    /\ IndexOfOrder(orders, order_id) # 0
    /\ orders' = [orders EXCEPT ![IndexOfOrder(orders, order_id)].status = status]
    /\ last_call' = PlainCall("update_order_status", order_id)
    /\ UNCHANGED <<machine_schedules, calendar, planning_options, calVars, allocVars, qryVars, matVars, supVars, runVars>>

\* ERPService.add_non_working_day(calendar_id, day): the cached schedules keep
\* pointing at the same calendar object
AddNonWorkingDay(day) ==
    /\ calendar' = [calendar EXCEPT !.non_working_days = @ \cup {day}]
    /\ last_call' = PlainCall("add_non_working_day", "")
    /\ UNCHANGED <<orders, machine_schedules, planning_options, calVars, allocVars, qryVars, matVars, supVars, runVars>>

\* update_planning_options: every number is clamped before it is stored
update_planning_options(priority_weight, due_date_weight, horizon_days, max_orders_per_cycle, auto_release_orders, setup_time_factor, gap_minutes) ==
    PlanningOptions(Max(priority_weight, 1), Max(due_date_weight, 0),
                    Max(horizon_days, 0), Max(max_orders_per_cycle, 0),
                    auto_release_orders, Max(setup_time_factor, 0), Max(gap_minutes, 0))

\* ERPService.update_planning_options(...), which ends with reset_machine_schedules()
UpdatePlanningOptions(priority_weight, due_date_weight) ==
    /\ planning_options' =
           update_planning_options(priority_weight, due_date_weight,
                                   planning_options.horizon_days,
                                   planning_options.max_orders_per_cycle,
                                   planning_options.auto_release_orders,
                                   planning_options.setup_time_factor,
                                   planning_options.gap_between_operations_minutes)
    /\ machine_schedules' = reset_machine_schedules(machine_schedules)
    /\ last_call' = PlainCall("update_planning_options", "")
    /\ UNCHANGED <<orders, calendar, calVars, allocVars, qryVars, matVars, supVars, runVars>>

----------------------------------------------------------------------------
(* get_upcoming_operations *)

\* the plans of an order that carry a machine id, a start and an end
ReportedOf(order) ==
    LET plans == SelectSeq(order.operations,
                           LAMBDA plan : /\ plan.scheduled_start # NoTime
                                         /\ plan.scheduled_end # NoTime
                                         /\ plan.assigned_machine_id # NoMachine)
    IN  [k \in 1..Len(plans) |->
            ScheduledOperation(order.id, plans[k].operation.id,
                               plans[k].assigned_machine_id, plans[k].scheduled_start,
                               plans[k].scheduled_end, FALSE, order.priority)]

RECURSIVE AllReported(_)
AllReported(order_list) ==
    IF order_list = <<>> THEN <<>>
    ELSE ReportedOf(Head(order_list)) \o AllReported(Tail(order_list))

\* operations.sort(key=lambda op: op.start), stable
InsertByOpStart(sorted, op) ==
    LET k == Cardinality({i \in 1..Len(sorted) : sorted[i].start <= op.start})
    IN  SubSeq(sorted, 1, k) \o <<op>> \o SubSeq(sorted, k + 1, Len(sorted))

\* a variant that leaves the operations in the order of the scan
ScanOrder(ops) == ops

RECURSIVE SortByOpStart(_)
SortByOpStart(ops) ==
    IF ops = <<>> THEN <<>>
    ELSE InsertByOpStart(SortByOpStart(SubSeq(ops, 1, Len(ops) - 1)), ops[Len(ops)])

\* the slice operations[:limit]: a negative limit counts from the end
SliceTo(ops, limit) ==
    IF limit >= 0 THEN SubSeq(ops, 1, Min(limit, Len(ops)))
    ELSE SubSeq(ops, 1, Max(Len(ops) + limit, 0))

\* the default of the keyword argument limit
DefaultLimit == 10

\* get_upcoming_operations(limit=...): operations[:limit] if limit else operations
get_upcoming_operations(order_list, limit) ==
    IF limit # 0 THEN SliceTo(SortByOpStart(AllReported(order_list)), limit)
    ELSE SortByOpStart(AllReported(order_list))

----------------------------------------------------------------------------
(* Spec: the scheduling engine on a small order book *)

\* the third order: no machine for its only operation; no machine for its second
\* operation; a second operation whose effective duration is 0 unless the factor is 2
ThirdOrders ==
    { << Operation("o3a", "Welding", 1, 0) >>,
      << Operation("o3a", "Turning", 1, 0), Operation("o3b", "Welding", 1, 0) >>,
      << Operation("o3a", "Turning", 1, 0), Operation("o3b", "Milling", -1, 1) >> }

OrderBook(third) ==
    << ProductionOrder("o1", 10, NORMAL, << Operation("o1a", "Turning", 2, 1) >>, 1),
       ProductionOrder("o2", 40, HIGH,
                       << Operation("o2a", "Turning", 1, 0),
                          Operation("o2b", "Milling", 2, 1) >>, 2),
       ProductionOrder("o3", 10, LOW, third, 3) >>

OrderIds == {"o1", "o2", "o3"}

\* two shifts a day with Tuesday off, or no working day at all
SvcCalendars ==
    { [shifts |-> <<EarlyShift, LateShift>>, non_working_days |-> {1}],
      [shifts |-> <<EarlyShift>>, non_working_days |-> AllDays] }

\* the defaults of PlanningOptions, and a tuned set as update_planning_options stores it
SvcOptions ==
    { PlanningOptions(100, 100, 0, 0, TRUE, 1, 0),
      PlanningOptions(1, 0, 20, 2, FALSE, 2, 30) }

\* the arguments schedule_backlog is called with
BacklogArgs ==
    { <<NoTime, None, None>>, <<Combine(1, Clock(2)), Some(0), Some(1)>> }

\* the statuses update_order_status is called with
StatusUpdates == {PLANNED, IN_PROGRESS, COMPLETED, CANCELLED}

Init ==
    /\ calendar \in SvcCalendars
    /\ orders \in {OrderBook(third) : third \in ThirdOrders}
    /\ planning_options \in SvcOptions
    /\ machine_schedules = <<>>
    /\ last_call = NoCall
    /\ cal_call = 0 /\ cal_result = 0
    /\ ms = 0 /\ alloc_call = 0 /\ alloc_result = 0 /\ alloc_log = 0
    /\ QryIdle
    /\ MatIdle
    /\ SupIdle
    /\ RunIdle

Next ==
    \/ \E order_id \in OrderIds :
          last_call.n < MaxCalls /\ ScheduleOrder(order_id, NoTime)
    \/ \E args \in BacklogArgs :
          last_call.n < MaxCalls /\ ScheduleBacklog(args[1], args[2], args[3])
    \/ last_call.n < MaxCalls /\ ResetMachineSchedules
    \/ \E order_id \in OrderIds, status \in StatusUpdates :
          last_call.n < MaxCalls /\ UpdateOrderStatus(order_id, status)
    \/ last_call.n < MaxCalls /\ AddNonWorkingDay(Today)

Spec == Init /\ [][Next]_vars

----------------------------------------------------------------------------
(* Claims about schedule_operations and schedule_backlog, checked under Spec *)

\* InMemoryRepository.get on the order repository
OrderById(order_list, order_id) == order_list[IndexOfOrder(order_list, order_id)]

\* the step is a call of schedule_operations
ScheduleOrderStep ==
    /\ last_call'.n = last_call.n + 1
    /\ last_call'.op = "schedule_operations"

\* the order has a single operation and no registered machine lists its process
OnlyOperationWithoutMachine(order) ==
    /\ Len(order.operations) = 1
    /\ \A i \in 1..Len(Machines) :
          \A j \in 1..Len(Machines[i].processes) :
             Machines[i].processes[j] # order.operations[1].operation.process

\* C7: scheduling an order whose only operation needs a process no machine is
\* registered for fails with the error for a missing machine, a RuntimeError like
\* the one for missing shift capacity, before any ScheduledOperation is produced:
\* no machine schedule is created or changed, the plan fields stay unset and the
\* status stays as it was.
C7_NoMachineFailsCleanly ==
    [][ (ScheduleOrderStep
           /\ OnlyOperationWithoutMachine(OrderById(orders, last_call'.order_id)))
        => /\ ~last_call'.ok
           /\ last_call'.error = RecordNotFoundError
           /\ RuntimeError \in ClassesOf(last_call'.error)
           /\ last_call'.summaries = <<>>
           /\ machine_schedules' = machine_schedules
           /\ orders' = orders ]_vars

\* the call failed for such an order while schedules of earlier calls were cached
C7_Witness ==
    /\ last_call.op = "schedule_operations"
    /\ OnlyOperationWithoutMachine(OrderById(orders, last_call.order_id))
    /\ ~last_call.ok
    /\ machine_schedules # <<>>
    /\ OrderById(orders, last_call.order_id).operations[1].assigned_machine_id = NoMachine

\* C8: per-order scheduling is all-or-nothing: when schedule_operations fails at
\* an operation of the order, no OperationPlan of the order carries a machine id,
\* start or end written by the failed call, get_upcoming_operations reports what
\* it reported before, the order is not released and no summary is returned.
C8_AllOrNothing ==
    [][ (ScheduleOrderStep /\ ~last_call'.ok)
        => /\ OrderById(orders', last_call'.order_id).operations
                 = OrderById(orders, last_call'.order_id).operations
           /\ get_upcoming_operations(orders', 0) = get_upcoming_operations(orders, 0)
           /\ OrderById(orders', last_call'.order_id).status
                 = OrderById(orders, last_call'.order_id).status
           /\ last_call'.summaries = <<>> ]_vars

\* C9: a backlog run in which the scheduling of one order fails still returns the
\* summaries of the orders scheduled before it; only the failing order's is missing.
C9_PriorSummariesReturned ==
    (last_call.op = "schedule_backlog" /\ ~last_call.ok)
    => /\ Len(last_call.summaries) = Len(last_call.sequence) - 1
       /\ \A i \in 1..Len(last_call.summaries) :
             last_call.summaries[i].order_id = last_call.sequence[i]

\* C10: schedule_backlog starts from cleared machine schedules whatever was
\* scheduled before: a run that directly follows a run with the same arguments
\* yields the same sequence, summaries (assignments, times, flags, loads),
\* machine schedules and plans as that run.
C10_BacklogRunsRepeat ==
    [][ (last_call'.n = last_call.n + 1 /\ last_call'.repeated)
        => /\ last_call'.ok = last_call.ok
           /\ last_call'.error = last_call.error
           /\ last_call'.sequence = last_call.sequence
           /\ last_call'.summaries = last_call.summaries
           /\ machine_schedules' = machine_schedules
           /\ orders' = orders ]_vars

\* two runs in a row after an earlier call, each scheduling two orders or more
C10_Witness ==
    /\ last_call.n = MaxCalls
    /\ last_call.repeated
    /\ last_call.ok
    /\ Len(last_call.summaries) >= 2
    /\ machine_schedules # <<>>

----------------------------------------------------------------------------
(* SpecBacklog: backlog runs over orders of every priority, under tuned weights *)

\* the due dates of the two orders that vary
BacklogDueDates == {5, 30}

\* three single-operation orders, created in this sequence
BacklogBook(p1, d1, p2, d2) ==
    << ProductionOrder("o1", d1, p1, << Operation("o1a", "Turning", 1, 0) >>, 1),
       ProductionOrder("o2", d2, p2, << Operation("o2a", "Turning", 1, 0) >>, 2),
       ProductionOrder("o3", 5, NORMAL, << Operation("o3a", "Milling", 1, 0) >>, 3) >>

\* the weights update_planning_options is called with, in hundredths; it clamps
\* the priority weight to 0.01 and the due-date weight to 0
PriorityWeights == {0, 1, 100}
DueDateWeights == {-100, 0, 100, 5000}

\* schedule_backlog with the stored horizon and cap, with a horizon of ten days
\* and a cap of two orders, or with a horizon of five days and the stored cap
BacklogRunArgs ==
    { <<NoTime, None, None>>, <<NoTime, Some(10), Some(2)>>, <<NoTime, Some(5), None>> }

SpecBacklogInit ==
    /\ calendar = [shifts |-> <<EarlyShift, LateShift>>, non_working_days |-> {1}]
    /\ orders \in {BacklogBook(p1, d1, p2, d2) :
                      p1 \in OrderPriority, d1 \in BacklogDueDates,
                      p2 \in OrderPriority, d2 \in BacklogDueDates}
    /\ planning_options = PlanningOptions(100, 100, 0, 0, TRUE, 1, 0)
    /\ machine_schedules = <<>>
    /\ last_call = NoCall
    /\ cal_call = 0 /\ cal_result = 0
    /\ ms = 0 /\ alloc_call = 0 /\ alloc_result = 0 /\ alloc_log = 0
    /\ QryIdle
    /\ MatIdle
    /\ SupIdle
    /\ RunIdle

SpecBacklogNext ==
    \/ \E priority_weight \in PriorityWeights, due_date_weight \in DueDateWeights :
          /\ last_call.n < MaxBacklogCalls
          /\ UpdatePlanningOptions(priority_weight, due_date_weight)
    \/ \E args \in BacklogRunArgs :
          /\ last_call.n < MaxBacklogCalls
          /\ ScheduleBacklog(args[1], args[2], args[3])
    \/ \E order_id \in OrderIds :
          /\ last_call.n < MaxBacklogCalls
          /\ UpdateOrderStatus(order_id, COMPLETED)

SpecBacklog == SpecBacklogInit /\ [][SpecBacklogNext]_vars

\* C3: in a backlog run priority dominates the processing order: of two orders
\* of the run, the one with the higher priority has its schedule_operations call
\* made first, for every priority weight >= 0.01 and due-date weight >= 0.
C3_PriorityDominates ==
    last_call.op = "schedule_backlog" =>
        \A i, j \in 1..Len(last_call.sequence) :
            (OrderById(orders, last_call.sequence[i]).priority
                > OrderById(orders, last_call.sequence[j]).priority) => i < j

\* a run in which an order of higher priority came first although it is due
\* later and the due-date weight is far above the priority weight
C3_Witness ==
    /\ last_call.op = "schedule_backlog"
    /\ planning_options.due_date_weight > planning_options.priority_weight
    /\ \E i, j \in 1..Len(last_call.sequence) :
          /\ i < j
          /\ OrderById(orders, last_call.sequence[i]).priority
                > OrderById(orders, last_call.sequence[j]).priority
          /\ OrderById(orders, last_call.sequence[i]).due_date
                > OrderById(orders, last_call.sequence[j]).due_date

----------------------------------------------------------------------------
(* Claims about the sequence of an order's operations, checked under Spec *)

\* the ids of the operations of an order, in their listed sequence
OperationIdsOf(order) ==
    [k \in 1..Len(order.operations) |-> order.operations[k].operation.id]

\* C11: the operations of an order scheduled successfully are allocated in their
\* listed sequence and are strictly sequential: operation i+1 starts no earlier
\* than the end of operation i plus the configured gap, so no two operations of
\* the order overlap, also on different machines.
C11_OperationsSequential ==
    \A s \in 1..Len(last_call.summaries) :
        LET summary == last_call.summaries[s]
            ops == summary.scheduled_operations
        IN  /\ [k \in 1..Len(ops) |-> ops[k].operation_id]
                  = OperationIdsOf(OrderById(orders, summary.order_id))
            /\ \A k \in 1..Len(ops) : ops[k].start < ops[k].end
            /\ \A k \in 1..(Len(ops) - 1) :
                  ops[k + 1].start
                     >= ops[k].end
                        + Max(planning_options.gap_between_operations_minutes, 0)

\* an order of two operations scheduled on two machines with a gap configured,
\* the second operation starting exactly when the gap has passed
C11_Witness ==
    \E s \in 1..Len(last_call.summaries) :
        LET ops == last_call.summaries[s].scheduled_operations
        IN  /\ Len(ops) = 2
            /\ ops[1].machine_id # ops[2].machine_id
            /\ planning_options.gap_between_operations_minutes > 0
            /\ ops[2].start = ops[1].end
                                + planning_options.gap_between_operations_minutes

----------------------------------------------------------------------------
(* Claims about the machine selector, checked under Spec *)

\* the ScheduledOperations of a call, in the order they were allocated
RECURSIVE CallOperations(_)
CallOperations(summaries) ==
    IF summaries = <<>> THEN <<>>
    ELSE Head(summaries).scheduled_operations \o CallOperations(Tail(summaries))

\* the Operation a ScheduledOperation was made for
OperationOf(order_list, scheduled) ==
    LET plans == OrderById(order_list, scheduled.order_id).operations
    IN  plans[CHOOSE k \in 1..Len(plans) :
                 plans[k].operation.id = scheduled.operation_id].operation

\* the cumulative hours of a machine when allocation k of a call is made: the
\* hours it had when the call began plus those of the allocations 1..k-1 on it
RECURSIVE LoadBefore(_, _, _, _, _)
LoadBefore(base, order_list, ops, k, machine_id) ==
    IF k = 1
    THEN IF machine_id \in DOMAIN base THEN base[machine_id].total_allocated_hours
         ELSE 0
    ELSE LoadBefore(base, order_list, ops, k - 1, machine_id)
         + IF ops[k - 1].machine_id = machine_id
           THEN OperationOf(order_list, ops[k - 1]).duration_hours
                + Max(OperationOf(order_list, ops[k - 1]).setup_time_hours
                         * Max(planning_options.setup_time_factor, 0), 0)
           ELSE 0

\* machine i of the repository lists the process
ListsProcess(i, process) ==
    \E j \in 1..Len(Machines[i].processes) : Machines[i].processes[j] = process

\* the position of a machine in the repository
MachineIndex(machine_id) ==
    CHOOSE i \in 1..Len(Machines) : Machines[i].id = machine_id

\* allocation k of the call went to a machine that lists the process and has the
\* lowest cumulative hours of the machines listing it, the first registered on a tie
LeastLoadedChosen(base, order_list, ops, k) ==
    LET process == OperationOf(order_list, ops[k]).process
        chosen == MachineIndex(ops[k].machine_id)
        load(i) == LoadBefore(base, order_list, ops, k, Machines[i].id)
    IN  /\ ListsProcess(chosen, process)
        /\ \A i \in 1..Len(Machines) :
              ListsProcess(i, process) =>
                 \/ load(chosen) < load(i)
                 \/ load(chosen) = load(i) /\ chosen <= i

\* C12: every operation is assigned to a machine that lists its process and has
\* the lowest current cumulative allocated hours among the machines listing it;
\* on a tie the machine registered first is chosen.
C12_LeastLoadedMachine ==
    [][ (/\ last_call'.n = last_call.n + 1
         /\ last_call'.op \in {"schedule_operations", "schedule_backlog"}
         /\ last_call'.ok)
        => \A k \in 1..Len(CallOperations(last_call'.summaries)) :
              LeastLoadedChosen(IF last_call'.op = "schedule_backlog" THEN <<>>
                                ELSE machine_schedules,
                                orders, CallOperations(last_call'.summaries), k) ]_vars

\* a Turning operation went to the machine registered second, the first one
\* carrying more hours
C12_Witness ==
    /\ last_call.ok
    /\ \E s \in 1..Len(last_call.summaries) :
          \E k \in 1..Len(last_call.summaries[s].scheduled_operations) :
             LET op == last_call.summaries[s].scheduled_operations[k]
             IN  /\ OperationOf(orders, op).process = "Turning"
                 /\ op.machine_id = "m2"
                 /\ "m1" \in DOMAIN machine_schedules
                 /\ machine_schedules["m1"].total_allocated_hours
                       > machine_schedules["m2"].total_allocated_hours

----------------------------------------------------------------------------
(* Claims about the filters of schedule_backlog, checked under Spec *)

\* the step is a call of schedule_backlog
BacklogStep ==
    /\ last_call'.n = last_call.n + 1
    /\ last_call'.op = "schedule_backlog"

\* the order is closed: Completed or Cancelled
Closed(order) == order.status \in {COMPLETED, CANCELLED}

\* the order is due within the horizon, or is of priority High or Critical
PassesHorizon(order, horizon) ==
    \/ horizon = 0
    \/ order.due_date <= Today + horizon
    \/ order.priority \in {HIGH, CRITICAL}

\* the positions of the open orders that pass the horizon filter
Retained(order_list, horizon) ==
    {i \in 1..Len(order_list) :
        ~Closed(order_list[i]) /\ PassesHorizon(order_list[i], horizon)}

\* the ids in a sequence
IdsIn(sequence) == {sequence[k] : k \in 1..Len(sequence)}

\* the ids of the orders some machine schedule holds an operation of
OrdersOnMachines(schedules) ==
    UNION { {schedules[m].operations[k].order_id :
                k \in 1..Len(schedules[m].operations)} : m \in DOMAIN schedules }

\* C13: a backlog run never schedules an order that is Completed or Cancelled:
\* the order gets no summary, adds no load to a machine, and its plans and status
\* are as before the run; a run that returns has scheduled as many of the other
\* orders as pass the horizon filter and fit under the cap.
C13_ClosedOrdersSkipped ==
    [][ BacklogStep =>
        /\ \A i \in 1..Len(orders) :
              Closed(orders[i]) =>
                 /\ orders'[i] = orders[i]
                 /\ orders[i].id \notin IdsIn(last_call'.sequence)
                 /\ \A s \in 1..Len(last_call'.summaries) :
                       last_call'.summaries[s].order_id # orders[i].id
                 /\ orders[i].id \notin OrdersOnMachines(machine_schedules')
        /\ last_call'.ok =>
              LET n == Cardinality(Retained(orders,
                           EffectiveHorizon(planning_options, last_call'.horizon_days)))
                  limit == EffectiveLimit(planning_options, last_call'.max_orders)
              IN  /\ Len(last_call'.summaries) = Len(last_call'.sequence)
                  /\ Len(last_call'.sequence) = IF limit > 0 THEN Min(limit, n) ELSE n ]_vars

\* a run that returned summaries while an order scheduled earlier was closed
C13_Witness ==
    /\ last_call.op = "schedule_backlog"
    /\ last_call.ok
    /\ last_call.summaries # <<>>
    /\ \E i \in 1..Len(orders) :
          /\ Closed(orders[i])
          /\ orders[i].operations[1].assigned_machine_id # NoMachine
          /\ orders[i].id \notin IdsIn(last_call.sequence)

----------------------------------------------------------------------------
(* Claims about the horizon filter and the cap, checked under SpecBacklog *)

\* C14: with a horizon > 0 a backlog run retains an open order exactly when it is
\* due within the horizon (due date <= today + horizon days) or its priority is
\* High or Critical; with a horizon of 0 no order is removed for its due date.
\* Without a cap the retained orders are the orders of the run; under a cap the
\* orders of the run are among them.
C14_HorizonFilter ==
    [][ (BacklogStep /\ last_call'.ok) =>
        LET horizon == EffectiveHorizon(planning_options, last_call'.horizon_days)
            retained == {orders[i].id : i \in Retained(orders, horizon)}
        IN  IF EffectiveLimit(planning_options, last_call'.max_orders) = 0
            THEN IdsIn(last_call'.sequence) = retained
            ELSE IdsIn(last_call'.sequence) \subseteq retained ]_vars

\* a run with a horizon of five days and no cap: it kept an order due on the
\* last day of the horizon, kept a High or Critical order due later, and
\* removed an order due later
C14_Witness ==
    /\ last_call.op = "schedule_backlog"
    /\ last_call.horizon_days = Some(5)
    /\ last_call.max_orders = None
    /\ \E i, j, k \in 1..Len(orders) :
          /\ orders[i].due_date = Today + 5
          /\ orders[i].id \in IdsIn(last_call.sequence)
          /\ orders[j].due_date > Today + 5
          /\ orders[j].priority >= HIGH
          /\ orders[j].id \in IdsIn(last_call.sequence)
          /\ orders[k].due_date > Today + 5
          /\ ~Closed(orders[k])
          /\ orders[k].id \notin IdsIn(last_call.sequence)

\* the sort key of the order with the given id, under the stored weights
KeyOf(order_list, order_id, options) ==
    backlog_key(OrderById(order_list, order_id),
                Max(options.priority_weight, 1), Max(options.due_date_weight, 0))

\* C15: the cap on orders per cycle is applied by truncation after sorting: with
\* a cap > 0 the run schedules exactly the first min(cap, n) orders of the sorted,
\* filtered backlog and no others; with a cap of 0 it schedules all n.
C15_CapTruncatesSortedBacklog ==
    [][ (BacklogStep /\ last_call'.ok) =>
        LET horizon == EffectiveHorizon(planning_options, last_call'.horizon_days)
            limit == EffectiveLimit(planning_options, last_call'.max_orders)
            retained == {orders[i].id : i \in Retained(orders, horizon)}
            n == Cardinality(retained)
            seq == last_call'.sequence
        IN  /\ Len(seq) = IF limit > 0 THEN Min(limit, n) ELSE n
            /\ IdsIn(seq) \subseteq retained
            /\ \A a, b \in 1..Len(seq) :
                  a < b => /\ seq[a] # seq[b]
                           /\ KeyLeq(KeyOf(orders, seq[a], planning_options),
                                     KeyOf(orders, seq[b], planning_options))
            /\ \A id \in retained \ IdsIn(seq) :
                  \A a \in 1..Len(seq) :
                     KeyLeq(KeyOf(orders, seq[a], planning_options),
                            KeyOf(orders, id, planning_options)) ]_vars

\* a run under a cap of two that scheduled two orders and left out an open order
\* within the horizon that was created before one of the two
C15_Witness ==
    /\ last_call.op = "schedule_backlog"
    /\ last_call.max_orders = Some(2)
    /\ Len(last_call.sequence) = 2
    /\ \E i \in Retained(orders, EffectiveHorizon(planning_options,
                                                  last_call.horizon_days)) :
          /\ orders[i].id \notin IdsIn(last_call.sequence)
          /\ \E a \in 1..2 :
                OrderById(orders, last_call.sequence[a]).created_at
                   > orders[i].created_at

----------------------------------------------------------------------------
(* Claims about the auto-release, checked under Spec *)

\* the ids of the orders a call scheduled successfully
ScheduledIds(call) ==
    IF call.op \in {"schedule_operations", "schedule_backlog"} /\ call.ok
    THEN IdsIn(call.sequence) ELSE {}

\* C16: after schedule_operations has succeeded for all operations of an order,
\* the order is Released if auto-release is enabled and it was Planned; in every
\* other case (auto-release disabled, or the order Released, In Progress,
\* Completed or Cancelled) scheduling leaves the status as it was.
C16_AutoRelease ==
    [][ (last_call'.n = last_call.n + 1 /\ ScheduledIds(last_call') # {}) =>
        \A i \in 1..Len(orders) :
            orders'[i].status =
                IF /\ orders[i].id \in ScheduledIds(last_call')
                   /\ planning_options.auto_release_orders
                   /\ orders[i].status = PLANNED
                THEN RELEASED
                ELSE orders[i].status ]_vars

\* schedule_operations has returned for an order that it released
C16_Witness ==
    /\ last_call.op = "schedule_operations"
    /\ last_call.ok
    /\ planning_options.auto_release_orders
    /\ OrderById(orders, last_call.order_id).status = RELEASED

----------------------------------------------------------------------------
(* SpecUpcoming: get_upcoming_operations over orders scheduled in part *)

\* Most plans an order of SpecUpcoming carries.
MaxPlans == 4

\* an order of MaxPlans one-hour Turning operations whose first `done` plans are
\* scheduled on m1, plan k starting k + offset hours after the start reference
PlannedOrder(id, created_at, done, offset) ==
    [ ProductionOrder(id, 10, NORMAL,
                      [k \in 1..MaxPlans |->
                          Operation(<<id, k>>, "Turning", 1, 0)], created_at)
      EXCEPT !.operations =
         [k \in 1..MaxPlans |->
             IF k <= done
             THEN [@[k] EXCEPT
                     !.assigned_machine_id = "m1",
                     !.scheduled_start = StartReference + Hours(k + offset),
                     !.scheduled_end = StartReference + Hours(k + offset + 1)]
             ELSE @[k]] ]

\* the limits get_upcoming_operations is called with; None is the absent argument
UpcomingLimits == {None, Some(0), Some(1), Some(3), Some(12)}

SpecUpcomingInit ==
    /\ orders \in { << PlannedOrder("o1", 1, d1, 0), PlannedOrder("o2", 2, d2, 1),
                       PlannedOrder("o3", 3, d3, 0) >> :
                    d1 \in 0..MaxPlans, d2 \in 0..MaxPlans, d3 \in 0..MaxPlans }
    /\ upcoming = [n |-> 0, limit |-> None, result |-> <<>>]
    /\ MatIdle
    /\ SupIdle
    /\ RunIdle
    /\ calendar = 0 /\ machine_schedules = 0 /\ planning_options = 0
    /\ last_call = 0
    /\ cal_call = 0 /\ cal_result = 0
    /\ ms = 0 /\ alloc_call = 0 /\ alloc_result = 0 /\ alloc_log = 0

\* ERPService.get_upcoming_operations(), or get_upcoming_operations(limit=v)
GetUpcomingOperations(limit) ==
    /\ upcoming' = [n |-> 1, limit |-> limit,
                    result |-> get_upcoming_operations(
                                   orders,
                                   IF limit = None THEN DefaultLimit
                                   ELSE ValueOf(limit))]
    /\ UNCHANGED <<calendar, calVars, allocVars, svcVars, matVars, supVars, runVars>>

SpecUpcomingNext == \E limit \in UpcomingLimits : GetUpcomingOperations(limit)

SpecUpcoming == SpecUpcomingInit /\ [][SpecUpcomingNext]_vars

\* the plans, over all orders, that carry a scheduled start, end and machine
PlansCarryingSchedule(order_list) ==
    {<<i, k>> \in (1..Len(order_list)) \X (1..MaxPlans) :
        /\ k <= Len(order_list[i].operations)
        /\ order_list[i].operations[k].scheduled_start # NoTime
        /\ order_list[i].operations[k].scheduled_end # NoTime
        /\ order_list[i].operations[k].assigned_machine_id # NoMachine}

\* entry e of the result reports plan k of order i
Reports(order_list, entry, i, k) ==
    /\ entry.order_id = order_list[i].id
    /\ entry.operation_id = order_list[i].operations[k].operation.id
    /\ entry.machine_id = order_list[i].operations[k].assigned_machine_id
    /\ entry.start = order_list[i].operations[k].scheduled_start
    /\ entry.end = order_list[i].operations[k].scheduled_end

\* the result holds `count` of the plans carrying a schedule, each once, sorted
\* by start time ascending, and no plan left out starts before one reported
EarliestPlansReported(order_list, result, count) ==
    LET plans == PlansCarryingSchedule(order_list)
    IN  /\ Len(result) = count
        /\ \A e \in 1..Len(result) :
              \E p \in plans : Reports(order_list, result[e], p[1], p[2])
        /\ \A e, f \in 1..Len(result) :
              e < f => /\ result[e].start <= result[f].start
                       /\ <<result[e].order_id, result[e].operation_id>>
                             # <<result[f].order_id, result[f].operation_id>>
        /\ \A p \in plans :
              (\A e \in 1..Len(result) : ~Reports(order_list, result[e], p[1], p[2]))
              => \A e \in 1..Len(result) :
                    result[e].start
                       <= order_list[p[1]].operations[p[2]].scheduled_start

\* what a call with the given limit is to return when an absent limit stands
\* for the limit `absent`
UpcomingAsLimited(absent) ==
    upcoming.n > 0 =>
        LET n == Cardinality(PlansCarryingSchedule(orders))
            limit == IF upcoming.limit = None THEN absent ELSE ValueOf(upcoming.limit)
        IN  EarliestPlansReported(orders, upcoming.result,
                                  IF limit > 0 THEN Min(limit, n) ELSE n)

\* C17: get_upcoming_operations returns exactly the plans, over all orders, that
\* carry a scheduled start, end and machine, sorted by start time ascending; with
\* a limit > 0 the first min(limit, n) of them, with limit 0 or absent all of them.
C17_UpcomingOperations == UpcomingAsLimited(0)

\* C17 as the code has it: an absent limit is the limit 10, so the call without
\* a limit returns the first min(10, n) plans; only limit 0 returns all of them.
C17_UpcomingOperationsDefaultLimit == UpcomingAsLimited(DefaultLimit)

\* a call without a limit on eleven or more scheduled plans that returned ten
C17_Witness ==
    /\ upcoming.n > 0
    /\ upcoming.limit = None
    /\ Cardinality(PlansCarryingSchedule(orders)) > DefaultLimit
    /\ Len(upcoming.result) = DefaultLimit

----------------------------------------------------------------------------
(* Material shortage analyzer: material_shortage_report *)

\* MaterialRequirement(item_id, quantity)
MaterialRequirement(item_id, quantity) == [item_id |-> item_id, quantity |-> quantity]

\* an Operation with its list of materials
OperationWithMaterials(id, process, materials) ==
    [id |-> id, process |-> process, duration_hours |-> 1, setup_time_hours |-> 0,
     materials |-> materials]

\* InventoryItem(id, name, quantity_on_hand, safety_stock, reorder_point, lead_time_days)
InventoryItem(id, name, quantity_on_hand, safety_stock, reorder_point, lead_time_days) ==
    [id |-> id, name |-> name, quantity_on_hand |-> quantity_on_hand,
     safety_stock |-> safety_stock, reorder_point |-> reorder_point,
     lead_time_days |-> lead_time_days]

\* Supplier(id, name, rating, material_item_ids)
Supplier(id, name, rating, material_item_ids) ==
    [id |-> id, name |-> name, rating |-> rating,
     material_item_ids |-> material_item_ids]

\* ProcurementOptions
ProcurementOptions(reorder_multiplier, include_safety_stock_gap, expedite_high_priority_days, default_lead_time_days, auto_create_orders) ==
    [reorder_multiplier |-> reorder_multiplier,
     include_safety_stock_gap |-> include_safety_stock_gap,
     expedite_high_priority_days |-> expedite_high_priority_days,
     default_lead_time_days |-> default_lead_time_days,
     auto_create_orders |-> auto_create_orders]

\* the position of a record in a repository, 0 when the id is unknown
IndexOfId(records, id) ==
    IF \E i \in 1..Len(records) : records[i].id = id
    THEN CHOOSE i \in 1..Len(records) : records[i].id = id
    ELSE 0

\* the requirements of all operations of the order, in the order of the two loops
RECURSIVE RequirementsOf(_)
RequirementsOf(plans) ==
    IF plans = <<>> THEN <<>>
    ELSE Head(plans).operation.materials \o RequirementsOf(Tail(plans))

\* aggregated_requirements[item_id] = aggregated_requirements.get(item_id, 0.0)
\* + quantity: a dict keeps the order in which its keys were first set
AddRequirement(aggregated, requirement) ==
    IF IndexOfId(aggregated, requirement.item_id) = 0
    THEN Append(aggregated, [id |-> requirement.item_id,
                             quantity |-> 0 + requirement.quantity])
    ELSE [aggregated EXCEPT ![IndexOfId(aggregated, requirement.item_id)].quantity =
                                @ + requirement.quantity]

RECURSIVE Aggregate(_, _)
Aggregate(aggregated, requirements) ==
    IF requirements = <<>> THEN aggregated
    ELSE Aggregate(AddRequirement(aggregated, Head(requirements)), Tail(requirements))

\* candidates.sort(key=rating, reverse=True) is stable: a supplier goes after
\* those of a rating at least as high
InsertByRating(sorted, supplier) ==
    LET k == Cardinality({i \in 1..Len(sorted) : sorted[i].rating >= supplier.rating})
    IN  SubSeq(sorted, 1, k) \o <<supplier>> \o SubSeq(sorted, k + 1, Len(sorted))

\* a variant of SortByRating that leaves the candidates in registration order
RegistrationOrder(candidates) == candidates

RECURSIVE SortByRating(_)
SortByRating(candidates) ==
    IF candidates = <<>> THEN <<>>
    ELSE InsertByRating(SortByRating(SubSeq(candidates, 1, Len(candidates) - 1)),
                        candidates[Len(candidates)])

\* the suppliers that list the item, in registration order
CandidatesFor(supplier_list, item_id) ==
    SelectSeq(supplier_list, LAMBDA supplier : item_id \in supplier.material_item_ids)

\* recommend_supplier_for_item: None, or the first candidate after the sort
recommend_supplier_for_item(supplier_list, item_id) ==
    IF CandidatesFor(supplier_list, item_id) = <<>> THEN None
    ELSE Some(Head(SortByRating(CandidatesFor(supplier_list, item_id))))

\* MaterialShortage; recommended_supplier_id is None or the id
MaterialShortage(item_id, name, required_quantity, projected_on_hand, shortage, reorder_recommendation, recommended_supplier_id, recommended_supplier_name) ==
    [item_id |-> item_id, name |-> name, required_quantity |-> required_quantity,
     projected_on_hand |-> projected_on_hand, shortage |-> shortage,
     reorder_recommendation |-> reorder_recommendation,
     recommended_supplier_id |-> recommended_supplier_id,
     recommended_supplier_name |-> recommended_supplier_name]

\* the name given to a requirement whose item is not in the inventory
UnknownItemName == "Unbekannte Position"

\* a variant of UnknownItemShortage that reports no shortage for the unknown item
SentinelWithoutShortage(item_id, required_quantity) ==
    MaterialShortage(item_id, UnknownItemName, required_quantity, 0 - required_quantity,
                     0, 0, None, "")

\* the entry appended when inventory.get raises RecordNotFoundError
UnknownItemShortage(item_id, required_quantity) ==
    MaterialShortage(item_id, UnknownItemName, required_quantity, 0 - required_quantity,
                     required_quantity, required_quantity, None, "")

\* include_safety / multiplier / ...: the option unless the argument is given
Resolve(option, argument) == IF argument = None THEN option ELSE ValueOf(argument)

\* a variant of SafetyGap that takes the gap whatever include_safety says
GapAlways(item, projected_on_hand, include_safety) ==
    item.safety_stock - projected_on_hand

\* safety_gap = item.safety_stock - projected_on_hand if include_safety else 0.0
SafetyGap(item, projected_on_hand, include_safety) ==
    IF include_safety THEN item.safety_stock - projected_on_hand ELSE 0

\* reorder_recommendation = max(shortage, reorder_trigger, 0.0) * multiplier
ReorderRecommendation(shortage, reorder_trigger, multiplier) ==
    Max(Max(shortage, reorder_trigger), 0) * multiplier

\* the entry of a known item, given projected_on_hand and shortage
KnownItemShortage(item, required_quantity, projected_on_hand, shortage, multiplier, supplier) ==
    MaterialShortage(item.id, item.name, required_quantity, projected_on_hand, shortage,
                     ReorderRecommendation(shortage, item.reorder_point - projected_on_hand,
                                           multiplier),
                     IF supplier = None THEN None ELSE Some(ValueOf(supplier).id),
                     IF supplier = None THEN "" ELSE ValueOf(supplier).name)

\* a variant of ReportKnownItem that reports every item of the inventory
ReportAlways(item, required_quantity, projected_on_hand, shortage, multiplier, supplier) ==
    <<KnownItemShortage(item, required_quantity, projected_on_hand, shortage,
                        multiplier, supplier)>>

\* if shortage > 0 or projected_on_hand < item.reorder_point: shortages.append(...)
ReportKnownItem(item, required_quantity, projected_on_hand, shortage, multiplier, supplier) ==
    IF shortage > 0 \/ projected_on_hand < item.reorder_point
    THEN <<KnownItemShortage(item, required_quantity, projected_on_hand, shortage,
                             multiplier, supplier)>>
    ELSE <<>>

\* the body of the loop for an item found in the inventory
ShortageOfItem(item, required_quantity, projected_on_hand, include_safety, multiplier, supplier) ==
    ReportKnownItem(item, required_quantity, projected_on_hand,
                    Max(0, SafetyGap(item, projected_on_hand, include_safety)),
                    multiplier, supplier)

\* one pass of `for item_id, required_quantity in aggregated_requirements.items()`
ShortageOfRequirement(inventory_list, supplier_list, index, requirement, include_safety, multiplier) ==
    IF index = 0 THEN <<UnknownItemShortage(requirement.id, requirement.quantity)>>
    ELSE ShortageOfItem(inventory_list[index], requirement.quantity,
                        inventory_list[index].quantity_on_hand - requirement.quantity,
                        include_safety, multiplier,
                        recommend_supplier_for_item(supplier_list, inventory_list[index].id))

RECURSIVE ShortageLoop(_, _, _, _, _)
ShortageLoop(inventory_list, supplier_list, aggregated, include_safety, multiplier) ==
    IF aggregated = <<>> THEN <<>>
    ELSE ShortageOfRequirement(inventory_list, supplier_list,
                               IndexOfId(inventory_list, Head(aggregated).id),
                               Head(aggregated), include_safety, multiplier)
         \o ShortageLoop(inventory_list, supplier_list, Tail(aggregated),
                         include_safety, multiplier)

\* material_shortage_report(order_id, include_safety_stock=, reorder_multiplier=):
\* orders.get raises RecordNotFoundError for an unknown order
material_shortage_report(order_list, inventory_list, supplier_list, options, order_id, include_safety_stock, reorder_multiplier) ==
    IF IndexOfId(order_list, order_id) = 0
    THEN [ok |-> FALSE, error |-> "RecordNotFoundError", shortages |-> <<>>]
    ELSE [ok |-> TRUE, error |-> "",
          shortages |->
              ShortageLoop(inventory_list, supplier_list,
                           Aggregate(<<>>, RequirementsOf(
                               order_list[IndexOfId(order_list, order_id)].operations)),
                           Resolve(options.include_safety_stock_gap, include_safety_stock),
                           Max(Resolve(options.reorder_multiplier, reorder_multiplier), 0))]

----------------------------------------------------------------------------
(* Procurement planner: plan_material_purchases *)

\* the two statuses plan_material_purchases gives a purchase order
OPEN == "Open"
DRAFT == "Planned"

\* PurchaseOrder; id stands for str(uuid4()): the number of the uuid4 call
PurchaseOrder(id, supplier_id, supplier_name, item_id, quantity, expected_receipt, status) ==
    [id |-> id, supplier_id |-> supplier_id, supplier_name |-> supplier_name,
     item_id |-> item_id, quantity |-> quantity,
     expected_receipt |-> expected_receipt, status |-> status]

\* a variant of AutoCreateFlag that reads the configured option only
OptionOnly(options, auto_create) == options.auto_create_orders

\* auto_create_flag = options.auto_create_orders if auto_create is None else auto_create
AutoCreateFlag(options, auto_create) == Resolve(options.auto_create_orders, auto_create)

\* expedite_days: the option as it is, the argument clamped at 0
ExpediteDays(options, expedite_high_priority_days) ==
    IF expedite_high_priority_days = None THEN options.expedite_high_priority_days
    ELSE Max(ValueOf(expedite_high_priority_days), 0)

\* a variant of SupplierOf that takes the supplier registered last for the item
LastLinkedSupplier(supplier_list, shortage, item) ==
    IF CandidatesFor(supplier_list, item.id) = <<>> THEN None
    ELSE Some(CandidatesFor(supplier_list, item.id)[
                  Len(CandidatesFor(supplier_list, item.id))])

\* the supplier of a shortage: suppliers.get(recommended_supplier_id), else
\* recommend_supplier_for_item(item.id); None when there is none
SupplierOf(supplier_list, shortage, item) ==
    IF /\ shortage.recommended_supplier_id # None
       /\ IndexOfId(supplier_list, ValueOf(shortage.recommended_supplier_id)) # 0
    THEN Some(supplier_list[IndexOfId(supplier_list,
                                      ValueOf(shortage.recommended_supplier_id))])
    ELSE recommend_supplier_for_item(supplier_list, item.id)

\* base_lead_time = max(item.lead_time_days or default_lead_time, 1)
BaseLeadTime(item, default_lead_time) ==
    Max(IF item.lead_time_days # 0 THEN item.lead_time_days ELSE default_lead_time, 1)

\* a variant of Expedited that subtracts the offset whatever the priority
ExpediteAlways(base_lead_time, priority, expedite_days) ==
    Max(1, base_lead_time - Max(expedite_days, 0))

\* if order.priority >= HIGH and expedite_days > 0: max(1, base - expedite_days)
Expedited(base_lead_time, priority, expedite_days) ==
    IF priority >= HIGH /\ expedite_days > 0
    THEN Max(1, base_lead_time - expedite_days)
    ELSE base_lead_time

\* a variant of StoreIfCreated that adds every purchase order to the store
StoreAlways(store, purchase_order, auto_create_flag) == Append(store, purchase_order)

\* if auto_create_flag: self.purchase_orders.add(purchase_order.id, purchase_order)
StoreIfCreated(store, purchase_order, auto_create_flag) ==
    IF auto_create_flag THEN Append(store, purchase_order) ELSE store

\* the state of the loop: the list planned, the store and the uuid4 calls made
Planning(planned, store, uuids) == [planned |-> planned, store |-> store, uuids |-> uuids]

\* the end of the loop body, once the purchase order is built
KeepPurchaseOrder(acc, purchase_order, auto_create_flag) ==
    Planning(Append(acc.planned, purchase_order),
             StoreIfCreated(acc.store, purchase_order, auto_create_flag),
             acc.uuids + 1)

\* the loop body from `quantity = ...` on, for a shortage with item and supplier
BuildPurchaseOrder(acc, shortage, item, supplier, lead_time, auto_create_flag) ==
    KeepPurchaseOrder(acc,
        PurchaseOrder(acc.uuids + 1, supplier.id, supplier.name, item.id,
                      Max(shortage.reorder_recommendation, shortage.shortage),
                      Today + lead_time,
                      IF auto_create_flag THEN OPEN ELSE DRAFT),
        auto_create_flag)

\* the loop body for a shortage whose item is in the inventory
PlanKnownItem(acc, shortage, item, supplier, priority, expedite_days, default_lead_time, auto_create_flag) ==
    IF supplier = None THEN acc
    ELSE BuildPurchaseOrder(acc, shortage, item, ValueOf(supplier),
                            Expedited(BaseLeadTime(item, default_lead_time),
                                      priority, expedite_days),
                            auto_create_flag)

\* the loop body for one shortage; index is the place of its item in the inventory
PlanShortage(acc, shortage, inventory_list, index, supplier_list, priority, expedite_days, default_lead_time, auto_create_flag) ==
    IF shortage.reorder_recommendation <= 0 /\ shortage.shortage <= 0 THEN acc
    ELSE IF index = 0 THEN acc
    ELSE PlanKnownItem(acc, shortage, inventory_list[index],
                       SupplierOf(supplier_list, shortage, inventory_list[index]),
                       priority, expedite_days, default_lead_time, auto_create_flag)

RECURSIVE PurchaseLoop(_, _, _, _, _, _, _, _)
PurchaseLoop(acc, shortages, inventory_list, supplier_list, priority, expedite_days, default_lead_time, auto_create_flag) ==
    IF shortages = <<>> THEN acc
    ELSE PurchaseLoop(PlanShortage(acc, Head(shortages), inventory_list,
                                   IndexOfId(inventory_list, Head(shortages).item_id),
                                   supplier_list, priority, expedite_days,
                                   default_lead_time, auto_create_flag),
                      Tail(shortages), inventory_list, supplier_list, priority,
                      expedite_days, default_lead_time, auto_create_flag)

\* plan_material_purchases(order_id, auto_create=, reorder_multiplier=,
\* include_safety_stock=, expedite_high_priority_days=): the list returned, the
\* store and the uuid4 count after the call; RecordNotFoundError for an unknown order
plan_material_purchases(order_list, inventory_list, supplier_list, store, uuids, options, order_id, auto_create, reorder_multiplier, include_safety_stock, expedite_high_priority_days) ==
    IF IndexOfId(order_list, order_id) = 0
    THEN [ok |-> FALSE, error |-> "RecordNotFoundError", planned |-> <<>>,
          store |-> store, uuids |-> uuids]
    ELSE [ok |-> TRUE, error |-> ""] @@
         PurchaseLoop(Planning(<<>>, store, uuids),
                      material_shortage_report(order_list, inventory_list, supplier_list,
                          options, order_id,
                          Some(Resolve(options.include_safety_stock_gap,
                                       include_safety_stock)),
                          Some(Max(Resolve(options.reorder_multiplier,
                                           reorder_multiplier), 0))).shortages,
                      inventory_list, supplier_list,
                      order_list[IndexOfId(order_list, order_id)].priority,
                      ExpediteDays(options, expedite_high_priority_days),
                      Max(options.default_lead_time_days, 0),
                      AutoCreateFlag(options, auto_create))

----------------------------------------------------------------------------
(* SpecMaterials: shortage reports and purchase planning on a small plant *)

\* Most shortage-report and purchase-planning calls of a run.
MaxMatCalls == 2

\* three orders: MO-1 needs 60 steel in one operation; MO-2 needs 150 steel over
\* two operations, 10 bolts, and 5 of an item the inventory does not know; MO-3
\* needs 5 of the unknown item and then 10 bolts
MaterialOrders ==
    << ProductionOrder("MO-1", 10, NORMAL,
           << OperationWithMaterials("a1", "Turning", <<MaterialRequirement("steel", 60)>>),
              OperationWithMaterials("a2", "Milling", <<>>) >>, 1),
       ProductionOrder("MO-2", 10, HIGH,
           << OperationWithMaterials("b1", "Turning",
                  <<MaterialRequirement("steel", 100), MaterialRequirement("bolt", 10)>>),
              OperationWithMaterials("b2", "Milling",
                  <<MaterialRequirement("ghost", 5), MaterialRequirement("steel", 50)>>) >>,
           2),
       ProductionOrder("MO-3", 10, LOW,
           << OperationWithMaterials("c1", "Turning",
                  <<MaterialRequirement("ghost", 5), MaterialRequirement("bolt", 10)>>) >>,
           3) >>

\* the order ids of the calls: the three orders and an id no order has
MaterialOrderIds == {"MO-1", "MO-2", "MO-3", "MO-9"}

\* the inventories of the runs
Inventories ==
    { << InventoryItem("steel", "Steel bar", 180, 80, reorder_point, lead_time_days),
         InventoryItem("bolt", "Bolt M8", on_hand, 0, 20, 2) >> :
      reorder_point \in {0, 130}, lead_time_days \in {0, 5}, on_hand \in {5, 100} }

\* the supplier registers of the runs; register_supplier takes the material item
\* ids as given, so a supplier may list an id the inventory does not know
SupplierRegisters ==
    { <<>>,
      << Supplier("s1", "Stahl AG", 4, {"steel"}),
         Supplier("s2", "Norm GmbH", 5, {"steel", "bolt"}) >>,
      << Supplier("s1", "Stahl AG", 5, {"steel"}),
         Supplier("s2", "Norm GmbH", 5, {"steel", "bolt"}) >>,
      << Supplier("s1", "Stahl AG", 4, {"steel"}),
         Supplier("s3", "Import KG", 3, {"ghost", "bolt"}) >> }

\* the arguments of update_procurement_options
ProcurementUpdates ==
    { <<2, TRUE, 0, 0, TRUE>>, <<-1, FALSE, -2, -3, FALSE>>, <<1, FALSE, 3, 7, TRUE>> }

\* <<include_safety_stock, reorder_multiplier>> of material_shortage_report
ReportArgs ==
    { <<None, None>>, <<Some(FALSE), Some(2)>>, <<Some(TRUE), Some(-1)>>,
      <<Some(TRUE), Some(2)>> }

\* <<auto_create, reorder_multiplier, include_safety_stock,
\*   expedite_high_priority_days>> of plan_material_purchases
PurchaseArgs ==
    { <<None, None, None, None>>,
      <<Some(FALSE), None, None, None>>,
      <<Some(TRUE), None, None, None>>,
      <<Some(TRUE), Some(2), Some(FALSE), Some(3)>>,
      <<Some(FALSE), Some(-1), Some(TRUE), Some(-2)>>,
      <<None, Some(2), Some(TRUE), Some(3)>> }

\* a material / procurement call and its outcome
MatCall(n, op, order_id, args, ok, error, shortages, planned) ==
    [n |-> n, op |-> op, order_id |-> order_id, args |-> args, ok |-> ok,
     error |-> error, shortages |-> shortages, planned |-> planned]

\* ERPService.__init__ leaves ProcurementOptions() and an empty purchase-order store
SpecMaterialsInit ==
    /\ orders = MaterialOrders
    /\ inventory \in Inventories
    /\ suppliers \in SupplierRegisters
    /\ purchase_orders = <<>>
    /\ procurement_options = ProcurementOptions(1, TRUE, 0, 0, FALSE)
    /\ uuid_calls = 0
    /\ mat_call = MatCall(0, "", "", <<>>, TRUE, "", <<>>, <<>>)
    /\ SupIdle
    /\ RunIdle
    /\ QryIdle
    /\ calendar = 0 /\ machine_schedules = 0 /\ planning_options = 0
    /\ last_call = 0
    /\ cal_call = 0 /\ cal_result = 0
    /\ ms = 0 /\ alloc_call = 0 /\ alloc_result = 0 /\ alloc_log = 0

\* update_procurement_options(...)
update_procurement_options(reorder_multiplier, include_safety_stock_gap, expedite_high_priority_days, default_lead_time_days, auto_create_orders) ==
    ProcurementOptions(Max(reorder_multiplier, 0), include_safety_stock_gap,
                       Max(expedite_high_priority_days, 0),
                       Max(default_lead_time_days, 0), auto_create_orders)

\* ERPService.update_procurement_options(...)
UpdateProcurementOptions(args) ==
    /\ procurement_options' =
           update_procurement_options(args[1], args[2], args[3], args[4], args[5])
    /\ procurement_options' # procurement_options
    /\ mat_call' = MatCall(mat_call.n, "update_procurement_options", "", args, TRUE, "",
                           <<>>, <<>>)
    /\ UNCHANGED <<inventory, suppliers, purchase_orders, uuid_calls>>
    /\ UNCHANGED <<calendar, calVars, allocVars, svcVars, qryVars, supVars, runVars>>

\* ERPService.material_shortage_report(order_id, include_safety_stock=, reorder_multiplier=)
MaterialShortageReport(order_id, args) ==
    /\ mat_call.n < MaxMatCalls
    /\ \E r \in {material_shortage_report(orders, inventory, suppliers,
                     procurement_options, order_id, args[1], args[2])} :
           mat_call' = MatCall(mat_call.n + 1, "material_shortage_report", order_id,
                               args, r.ok, r.error, r.shortages, <<>>)
    /\ UNCHANGED <<inventory, suppliers, purchase_orders, procurement_options, uuid_calls>>
    /\ UNCHANGED <<calendar, calVars, allocVars, svcVars, qryVars, supVars, runVars>>

\* ERPService.plan_material_purchases(order_id, auto_create=, reorder_multiplier=,
\* include_safety_stock=, expedite_high_priority_days=)
PlanMaterialPurchases(order_id, args) ==
    /\ mat_call.n < MaxMatCalls
    /\ \E r \in {plan_material_purchases(orders, inventory, suppliers, purchase_orders,
                     uuid_calls, procurement_options, order_id,
                     args[1], args[2], args[3], args[4])} :
           /\ purchase_orders' = r.store
           /\ uuid_calls' = r.uuids
           /\ mat_call' = MatCall(mat_call.n + 1, "plan_material_purchases", order_id,
                                  args, r.ok, r.error, <<>>, r.planned)
    /\ UNCHANGED <<inventory, suppliers, procurement_options>>
    /\ UNCHANGED <<calendar, calVars, allocVars, svcVars, qryVars, supVars, runVars>>

SpecMaterialsNext ==
    \/ \E args \in ProcurementUpdates : UpdateProcurementOptions(args)
    \/ \E order_id \in MaterialOrderIds, args \in ReportArgs :
           MaterialShortageReport(order_id, args)
    \/ \E order_id \in MaterialOrderIds, args \in PurchaseArgs :
           PlanMaterialPurchases(order_id, args)

SpecMaterials == SpecMaterialsInit /\ [][SpecMaterialsNext]_vars

\* a plan_material_purchases call is made in the step
PurchaseStep == mat_call'.n = mat_call.n + 1 /\ mat_call'.op = "plan_material_purchases"

\* the shortage report of the order of a plan_material_purchases call, under the
\* multiplier and safety-stock arguments of that call
ReportOfPurchaseCall(call) ==
    material_shortage_report(orders, inventory, suppliers, procurement_options,
                             call.order_id, call.args[3], call.args[2]).shortages

\* the purchase order is the one of a report entry: its item, as quantity the
\* larger of recommendation and shortage, a receipt date after today
FollowsEntry(purchase_order, report) ==
    \E k \in 1..Len(report) :
        /\ report[k].item_id = purchase_order.item_id
        /\ purchase_order.quantity =
               Max(report[k].reorder_recommendation, report[k].shortage)
        /\ purchase_order.quantity > 0
        /\ purchase_order.expected_receipt > Today

\* C18: a plan_material_purchases call with auto_create=False leaves the
\* purchase-order store as it was, whatever the order, the inventory, the
\* suppliers and the configured options, and every purchase order it returns has
\* status "Planned", the quantity computed from its shortage entry and an
\* expected receipt date.
C18_DraftsLeaveStore ==
    [][ (PurchaseStep /\ mat_call'.args[1] = Some(FALSE))
        => /\ purchase_orders' = purchase_orders
           /\ \A k \in 1..Len(mat_call'.planned) :
                  /\ mat_call'.planned[k].status = DRAFT
                  /\ FollowsEntry(mat_call'.planned[k], ReportOfPurchaseCall(mat_call'))
      ]_vars

\* C18 witness: with auto_create_orders configured, a call with auto_create=False
\* returned two drafts and the store is empty
C18_Witness ==
    /\ mat_call.op = "plan_material_purchases"
    /\ mat_call.args[1] = Some(FALSE)
    /\ procurement_options.auto_create_orders
    /\ Len(mat_call.planned) = 2
    /\ purchase_orders = <<>>

\* auto-create is enabled for a call: by its argument or, when the argument is
\* absent, by the configured option
AutoCreateEnabled(call) ==
    \/ call.args[1] = Some(TRUE)
    \/ call.args[1] = None /\ procurement_options.auto_create_orders

\* the purchase order is one of the records of the store
InStore(store, purchase_order) == \E j \in 1..Len(store) : store[j] = purchase_order

\* C19: every purchase order returned by plan_material_purchases has status
\* "Open" exactly when auto-create is enabled (by the argument or, the argument
\* being absent, by the configured option) and is in the purchase-order store
\* after the call exactly when auto-create is enabled; with auto-create enabled
\* the store after the call is the store before it followed by the returned
\* purchase orders.
C19_OpenIffAutoCreate ==
    [][ PurchaseStep
        => /\ \A k \in 1..Len(mat_call'.planned) :
                  /\ mat_call'.planned[k].status = OPEN <=> AutoCreateEnabled(mat_call')
                  /\ InStore(purchase_orders', mat_call'.planned[k])
                         <=> AutoCreateEnabled(mat_call')
                  /\ ~InStore(purchase_orders, mat_call'.planned[k])
           /\ AutoCreateEnabled(mat_call')
                  => purchase_orders' = purchase_orders \o mat_call'.planned
      ]_vars

\* C19 witness: a call without the auto_create argument, auto_create_orders being
\* configured, returned purchase orders that follow earlier ones in the store
C19_Witness ==
    /\ mat_call.op = "plan_material_purchases"
    /\ mat_call.args[1] = None
    /\ procurement_options.auto_create_orders
    /\ mat_call.planned # <<>>
    /\ \A k \in 1..Len(mat_call.planned) : mat_call.planned[k].status = OPEN
    /\ Len(purchase_orders) > Len(mat_call.planned)
    /\ SubSeq(purchase_orders, Len(purchase_orders) - Len(mat_call.planned) + 1,
              Len(purchase_orders)) = mat_call.planned

\* the sum of the quantities of the item over a list of requirements
RECURSIVE SumQuantities(_, _)
SumQuantities(requirements, item_id) ==
    IF requirements = <<>> THEN 0
    ELSE (IF Head(requirements).item_id = item_id THEN Head(requirements).quantity ELSE 0)
         + SumQuantities(Tail(requirements), item_id)

\* required: the sum of the item's quantities over all operations of the order
RequiredQuantity(order_list, order_id, item_id) ==
    SumQuantities(RequirementsOf(order_list[IndexOfId(order_list, order_id)].operations),
                  item_id)

\* safety-stock consideration is enabled for a report call: by its argument or,
\* when the argument is absent, by the configured option
SafetyEnabled(call) ==
    \/ call.args[1] = Some(TRUE)
    \/ call.args[1] = None /\ procurement_options.include_safety_stock_gap

\* the multiplier of a report call: its argument or, when the argument is
\* absent, the configured option, and never below 0
MultiplierOf(call) ==
    Max(IF call.args[2] = None THEN procurement_options.reorder_multiplier
        ELSE ValueOf(call.args[2]), 0)

\* the entry carries the arithmetic of the item for the call
ArithmeticOf(entry, item, call) ==
    /\ entry.required_quantity = RequiredQuantity(orders, call.order_id, item.id)
    /\ entry.projected_on_hand = item.quantity_on_hand - entry.required_quantity
    /\ entry.shortage = IF SafetyEnabled(call)
                        THEN Max(0, item.safety_stock - entry.projected_on_hand)
                        ELSE 0
    /\ entry.reorder_recommendation =
           Max(Max(entry.shortage, item.reorder_point - entry.projected_on_hand), 0)
               * MultiplierOf(call)

\* C20: in a shortage report, the entry of an inventory item has as required
\* quantity the sum of the item's quantities over all operations of the order,
\* projected_on_hand = on_hand - required, shortage = max(0, safety_stock -
\* projected_on_hand) when safety-stock consideration is enabled and 0 otherwise,
\* and reorder_recommendation = max(shortage, reorder_point - projected_on_hand, 0)
\* times the multiplier (the argument or the configured one, not below 0).
C20_ShortageArithmetic ==
    (mat_call.op = "material_shortage_report" /\ mat_call.ok)
    => \A k \in 1..Len(mat_call.shortages) : \A i \in 1..Len(inventory) :
           inventory[i].id = mat_call.shortages[k].item_id
           => ArithmeticOf(mat_call.shortages[k], inventory[i], mat_call)

\* C20 witness: on-hand 180, safety 80 and 150 required over two operations give
\* an entry with projected 30, shortage 50 and, the reorder point being 130 and
\* the multiplier 2, a recommendation of 200
C20_Witness ==
    /\ mat_call.op = "material_shortage_report"
    /\ mat_call.order_id = "MO-2"
    /\ mat_call.args = <<Some(TRUE), Some(2)>>
    /\ inventory[1].quantity_on_hand = 180 /\ inventory[1].safety_stock = 80
    /\ inventory[1].reorder_point = 130
    /\ \E k \in 1..Len(mat_call.shortages) :
           /\ mat_call.shortages[k].item_id = "steel"
           /\ mat_call.shortages[k].required_quantity = 150
           /\ mat_call.shortages[k].projected_on_hand = 30
           /\ mat_call.shortages[k].shortage = 50
           /\ mat_call.shortages[k].reorder_recommendation = 200

\* the item ids the operations of the order require
RequiredItemIds(order_list, order_id) ==
    LET requirements ==
            RequirementsOf(order_list[IndexOfId(order_list, order_id)].operations)
    IN  {requirements[k].item_id : k \in 1..Len(requirements)}

\* the item has an entry in the report
Reported(report, item_id) == \E k \in 1..Len(report) : report[k].item_id = item_id

\* the projected stock of the item after the order of the call
ProjectedOf(item, call) ==
    item.quantity_on_hand - RequiredQuantity(orders, call.order_id, item.id)

\* the shortage of the item for the call
ShortageOf(item, call) ==
    IF SafetyEnabled(call) THEN Max(0, item.safety_stock - ProjectedOf(item, call)) ELSE 0

\* C21: a shortage report has an entry for an inventory item the order requires
\* if and only if the item's shortage is > 0 or its projected_on_hand is below
\* its reorder point; an item whose projected stock is at or above both its
\* safety stock and its reorder point has no entry; no item id has two entries.
C21_EntryIffShortOrBelowReorderPoint ==
    (mat_call.op = "material_shortage_report" /\ mat_call.ok)
    => /\ \A i \in 1..Len(inventory) :
              /\ inventory[i].id \in RequiredItemIds(orders, mat_call.order_id)
                 => (Reported(mat_call.shortages, inventory[i].id)
                     <=> \/ ShortageOf(inventory[i], mat_call) > 0
                         \/ ProjectedOf(inventory[i], mat_call)
                                < inventory[i].reorder_point)
              /\ (/\ ProjectedOf(inventory[i], mat_call) >= inventory[i].safety_stock
                  /\ ProjectedOf(inventory[i], mat_call) >= inventory[i].reorder_point)
                 => ~Reported(mat_call.shortages, inventory[i].id)
       /\ \A k, l \in 1..Len(mat_call.shortages) :
              mat_call.shortages[k].item_id = mat_call.shortages[l].item_id => k = l

\* C21 witness: a report of MO-2, which requires steel and bolts, lists the steel,
\* short of its safety stock, and not the bolts, of which 90 remain
C21_Witness ==
    /\ mat_call.op = "material_shortage_report"
    /\ mat_call.order_id = "MO-2"
    /\ SafetyEnabled(mat_call)
    /\ Reported(mat_call.shortages, "steel")
    /\ inventory[2].quantity_on_hand = 100
    /\ ~Reported(mat_call.shortages, "bolt")

\* the item id is the id of no inventory item
UnknownItem(item_id) == IndexOfId(inventory, item_id) = 0

\* the report has a sentinel entry for the item: the full required quantity as
\* shortage
HasSentinel(report, item_id, required_quantity) ==
    \E k \in 1..Len(report) :
        /\ report[k].item_id = item_id
        /\ report[k].required_quantity = required_quantity
        /\ report[k].shortage = required_quantity

\* the report has the entry of every inventory item the order requires that is
\* short or below its reorder point, with the arithmetic of the item
KnownItemsReported(call) ==
    \A i \in 1..Len(inventory) :
        (/\ inventory[i].id \in RequiredItemIds(orders, call.order_id)
         /\ \/ ShortageOf(inventory[i], call) > 0
            \/ ProjectedOf(inventory[i], call) < inventory[i].reorder_point)
        => \E k \in 1..Len(call.shortages) :
               /\ call.shortages[k].item_id = inventory[i].id
               /\ ArithmeticOf(call.shortages[k], inventory[i], call)

\* C22: a shortage report of an existing order never fails because of an item
\* the inventory does not know: the report returns, has for every required item id
\* absent from the inventory a sentinel entry whose shortage is the full required
\* quantity, and still has the entries of the other items of the order.
C22_UnknownItemSentinel ==
    (mat_call.op = "material_shortage_report"
        /\ IndexOfId(orders, mat_call.order_id) # 0)
    => /\ mat_call.ok
       /\ \A item_id \in RequiredItemIds(orders, mat_call.order_id) :
              UnknownItem(item_id)
              => HasSentinel(mat_call.shortages, item_id,
                             RequiredQuantity(orders, mat_call.order_id, item_id))
       /\ KnownItemsReported(mat_call)

\* C22 witness: the report of MO-3, whose first requirement is unknown to the
\* inventory, has the sentinel entry followed by the entry of the bolts
C22_Witness ==
    /\ mat_call.op = "material_shortage_report"
    /\ mat_call.order_id = "MO-3"
    /\ mat_call.ok
    /\ Len(mat_call.shortages) = 2
    /\ mat_call.shortages[1].item_id = "ghost"
    /\ mat_call.shortages[1].name = UnknownItemName
    /\ mat_call.shortages[1].shortage = 5
    /\ mat_call.shortages[2].item_id = "bolt"

\* a plan_material_purchases call that returned is made in the step
PurchaseReturns == PurchaseStep /\ mat_call'.ok

\* the entry asks for a purchase: reorder_recommendation > 0 or shortage > 0
AsksForPurchase(entry) == entry.reorder_recommendation > 0 \/ entry.shortage > 0

\* some supplier is linked to the item id
HasLinkedSupplier(item_id) ==
    \E j \in 1..Len(suppliers) : item_id \in suppliers[j].material_item_ids

\* the supplier is linked to the item and no linked supplier is rated higher
HighestRatedLinked(supplier_id, item_id) ==
    \E j \in 1..Len(suppliers) :
        /\ suppliers[j].id = supplier_id
        /\ item_id \in suppliers[j].material_item_ids
        /\ \A l \in 1..Len(suppliers) :
               item_id \in suppliers[l].material_item_ids
               => suppliers[l].rating <= suppliers[j].rating

\* the purchase order is the draft of the entry: its item, the larger of
\* recommendation and shortage as quantity, the supplier the report recommends
\* or else the highest-rated linked one
DraftOfEntry(purchase_order, entry) ==
    /\ purchase_order.item_id = entry.item_id
    /\ purchase_order.quantity = Max(entry.reorder_recommendation, entry.shortage)
    /\ purchase_order.quantity > 0
    /\ IF entry.recommended_supplier_id # None
       THEN purchase_order.supplier_id = ValueOf(entry.recommended_supplier_id)
       ELSE HighestRatedLinked(purchase_order.supplier_id, entry.item_id)

\* exactly one of the returned purchase orders is for the entry's item, and it
\* is the draft of the entry
ExactlyOneDraft(planned, entry) ==
    /\ Cardinality({k \in 1..Len(planned) : planned[k].item_id = entry.item_id}) = 1
    /\ \E k \in 1..Len(planned) : DraftOfEntry(planned[k], entry)

\* C23 as stated: for each shortage entry with reorder_recommendation > 0 or
\* shortage > 0 whose item id has a linked supplier, plan_material_purchases
\* returns exactly one draft for the item, with quantity max(recommendation,
\* shortage) > 0 from the recommended or highest-rated linked supplier; an entry
\* is skipped only when no supplier is found.
C23_OneDraftPerEntry ==
    [][ PurchaseReturns
        => \A e \in 1..Len(ReportOfPurchaseCall(mat_call')) :
               (/\ AsksForPurchase(ReportOfPurchaseCall(mat_call')[e])
                /\ HasLinkedSupplier(ReportOfPurchaseCall(mat_call')[e].item_id))
               => ExactlyOneDraft(mat_call'.planned, ReportOfPurchaseCall(mat_call')[e])
      ]_vars

\* C23 amended: the same for the entries of items the inventory knows; the
\* entry of an unknown item gets no draft, nor does an entry without a linked
\* supplier, and every returned draft is the draft of an entry.
C23_OneDraftPerKnownEntry ==
    [][ PurchaseReturns
        => /\ \A e \in 1..Len(ReportOfPurchaseCall(mat_call')) :
                  IF /\ AsksForPurchase(ReportOfPurchaseCall(mat_call')[e])
                     /\ HasLinkedSupplier(ReportOfPurchaseCall(mat_call')[e].item_id)
                     /\ ~UnknownItem(ReportOfPurchaseCall(mat_call')[e].item_id)
                  THEN ExactlyOneDraft(mat_call'.planned,
                                       ReportOfPurchaseCall(mat_call')[e])
                  ELSE \A k \in 1..Len(mat_call'.planned) :
                           mat_call'.planned[k].item_id
                               # ReportOfPurchaseCall(mat_call')[e].item_id
           /\ \A k \in 1..Len(mat_call'.planned) :
                  \E e \in 1..Len(ReportOfPurchaseCall(mat_call')) :
                      DraftOfEntry(mat_call'.planned[k],
                                   ReportOfPurchaseCall(mat_call')[e])
      ]_vars

\* C23 witness: for MO-3 one supplier lists both the unknown item and the bolts;
\* the call returned the one draft of the bolts, from that supplier, and none for
\* the unknown item
C23_Witness ==
    /\ mat_call.op = "plan_material_purchases"
    /\ mat_call.order_id = "MO-3"
    /\ mat_call.ok
    /\ HasLinkedSupplier("ghost")
    /\ Len(mat_call.planned) = 1
    /\ mat_call.planned[1].item_id = "bolt"
    /\ mat_call.planned[1].supplier_id = "s3"
    /\ mat_call.planned[1].quantity > 0

\* the expedite offset of a call: its argument, not below 0, or, when the
\* argument is absent, the configured option
ExpediteOffset(call) ==
    IF call.args[4] = None THEN procurement_options.expedite_high_priority_days
    ELSE Max(ValueOf(call.args[4]), 0)

\* the item's configured lead time, the configured default when it is 0, at
\* least one day
FlooredLeadTime(item) ==
    Max(1, IF item.lead_time_days = 0
           THEN Max(procurement_options.default_lead_time_days, 0)
           ELSE item.lead_time_days)

\* the lead time of a draft for the item in an order of the priority
LeadTimeOf(item, priority, offset) ==
    IF priority \in {HIGH, CRITICAL} /\ offset > 0
    THEN Max(1, FlooredLeadTime(item) - offset)
    ELSE FlooredLeadTime(item)

\* the priority of the order of a call
PriorityOf(call) == orders[IndexOfId(orders, call.order_id)].priority

\* C24: every purchase draft has expected receipt = today + lead time, where the
\* lead time is the item's configured lead time, or the configured default when
\* the item's is 0, floored at 1 day, less the expedite offset only when the
\* order's priority is High or Critical and the offset is > 0, floored at 1 day
\* again; the receipt is at least one day after today, and for Low and Normal
\* orders the offset has no effect.
C24_LeadTime ==
    [][ PurchaseReturns
        => \A k \in 1..Len(mat_call'.planned) : \A i \in 1..Len(inventory) :
               inventory[i].id = mat_call'.planned[k].item_id
               => /\ mat_call'.planned[k].expected_receipt =
                         Today + LeadTimeOf(inventory[i], PriorityOf(mat_call'),
                                            ExpediteOffset(mat_call'))
                  /\ mat_call'.planned[k].expected_receipt >= Today + 1
                  /\ PriorityOf(mat_call') \in {LOW, NORMAL}
                         => mat_call'.planned[k].expected_receipt =
                                Today + FlooredLeadTime(inventory[i])
      ]_vars

\* C24 witness: for the High order MO-2 and an expedite offset of 3, the steel
\* with a lead time of 5 days is due in 2 days and the bolts with a lead time
\* of 2 days in 1 day
C24_Witness ==
    /\ mat_call.op = "plan_material_purchases"
    /\ mat_call.order_id = "MO-2"
    /\ mat_call.args[4] = Some(3)
    /\ inventory[1].lead_time_days = 5
    /\ inventory[2].lead_time_days = 2
    /\ \E k \in 1..Len(mat_call.planned) :
           /\ mat_call.planned[k].item_id = "steel"
           /\ mat_call.planned[k].expected_receipt = Today + 2
    /\ \E k \in 1..Len(mat_call.planned) :
           /\ mat_call.planned[k].item_id = "bolt"
           /\ mat_call.planned[k].expected_receipt = Today + 1

----------------------------------------------------------------------------
(* Supplier rating: record_supplier_evaluation and recommend_supplier_for_item *)

\* Most supplier evaluations of a run.
MaxEvaluations == 3

RECURSIVE Factorial(_)
Factorial(n) == IF n <= 1 THEN 1 ELSE n * Factorial(n - 1)

\* Ratings and overall scores are floats in the code.  Here they are counted in
\* units of 1 / RatingUnit: every mean of three whole scores and every running
\* average over at most MaxEvaluations evaluations is a whole number of units,
\* so that the divisions below are exact.
RatingUnit == 3 * Factorial(MaxEvaluations)

\* a Supplier as register_supplier builds it: rating 0.0 and rating_count 0
RegisteredSupplier(id, name, material_item_ids) ==
    [rating_count |-> 0] @@ Supplier(id, name, 0, material_item_ids)

\* SupplierEvaluation; id stands for str(uuid4())
SupplierEvaluation(id, supplier_id, quality_score, delivery_reliability_score, communication_score, overall_score) ==
    [id |-> id, supplier_id |-> supplier_id, quality_score |-> quality_score,
     delivery_reliability_score |-> delivery_reliability_score,
     communication_score |-> communication_score, overall_score |-> overall_score]

\* overall = (quality_score + delivery_reliability_score + communication_score) / 3.0
OverallScore(quality_score, delivery_reliability_score, communication_score) ==
    ((quality_score + delivery_reliability_score + communication_score) * RatingUnit)
        \div 3

\* a variant of Rated that averages the old rating and the new score
AverageOfTwo(supplier, overall) ==
    [supplier EXCEPT !.rating_count = @ + 1,
                     !.rating = (supplier.rating + overall) \div 2]

\* total = rating * rating_count + overall; rating_count += 1;
\* rating = total / float(rating_count)
Rated(supplier, overall) ==
    [supplier EXCEPT !.rating_count = @ + 1,
                     !.rating = (supplier.rating * supplier.rating_count + overall)
                                    \div (supplier.rating_count + 1)]

\* the register after the evaluation of the supplier at the index
WithRated(supplier_list, index, overall) ==
    [supplier_list EXCEPT ![index] = Rated(supplier_list[index], overall)]

\* the outcome of record_supplier_evaluation
Evaluated(ok, error, supplier_list, evaluations, uuids) ==
    [ok |-> ok, error |-> error, suppliers |-> supplier_list,
     evaluations |-> evaluations, uuids |-> uuids]

\* record_supplier_evaluation for a supplier of the register
RecordFor(supplier_list, evaluations, uuids, index, scores, overall) ==
    Evaluated(TRUE, "", WithRated(supplier_list, index, overall),
              Append(evaluations,
                     SupplierEvaluation(uuids + 1, supplier_list[index].id,
                                        scores[1], scores[2], scores[3], overall)),
              uuids + 1)

\* record_supplier_evaluation(supplier_id, quality_score,
\* delivery_reliability_score, communication_score): suppliers.get raises
\* RecordNotFoundError for an unknown supplier, before anything is written
record_supplier_evaluation(supplier_list, evaluations, uuids, supplier_id, scores) ==
    IF IndexOfId(supplier_list, supplier_id) = 0
    THEN Evaluated(FALSE, "RecordNotFoundError", supplier_list, evaluations, uuids)
    ELSE RecordFor(supplier_list, evaluations, uuids,
                   IndexOfId(supplier_list, supplier_id), scores,
                   OverallScore(scores[1], scores[2], scores[3]))

\* the registers of the runs: three registered suppliers and their links
RatedRegisters ==
    { << RegisteredSupplier("s1", "Stahl AG", {"steel"}),
         RegisteredSupplier("s2", "Norm GmbH", links2),
         RegisteredSupplier("s3", "Import KG", links3) >> :
      links2 \in {{"steel", "bolt"}, {"bolt"}}, links3 \in {{}, {"steel"}} }

\* the supplier ids of the calls: the three suppliers and an id no supplier has
SupplierIds == {"s1", "s2", "s3", "s9"}

\* <<quality_score, delivery_reliability_score, communication_score>>
ScoreSets == { <<1, 1, 2>>, <<5, 4, 4>>, <<3, 3, 3>> }

\* the item ids of the recommend_supplier_for_item calls
RecommendItemIds == {"steel", "bolt", "ghost"}

\* a supplier-rating call and its outcome
SupCall(op, id, scores, ok, error, result) ==
    [op |-> op, id |-> id, scores |-> scores, ok |-> ok, error |-> error,
     result |-> result]

SpecSuppliersInit ==
    /\ suppliers \in RatedRegisters
    /\ supplier_evaluations = <<>>
    /\ uuid_calls = 0
    /\ sup_call = SupCall("", "", <<>>, TRUE, "", None)
    /\ RunIdle
    /\ inventory = 0 /\ purchase_orders = 0 /\ procurement_options = 0
    /\ mat_call = 0
    /\ QryIdle
    /\ calendar = 0 /\ orders = 0 /\ machine_schedules = 0 /\ planning_options = 0
    /\ last_call = 0
    /\ cal_call = 0 /\ cal_result = 0
    /\ ms = 0 /\ alloc_call = 0 /\ alloc_result = 0 /\ alloc_log = 0

\* ERPService.record_supplier_evaluation(supplier_id, ...)
RecordSupplierEvaluation(supplier_id, scores) ==
    /\ Len(supplier_evaluations) < MaxEvaluations
    /\ \E r \in {record_supplier_evaluation(suppliers, supplier_evaluations,
                                            uuid_calls, supplier_id, scores)} :
           /\ suppliers' = r.suppliers
           /\ supplier_evaluations' = r.evaluations
           /\ uuid_calls' = r.uuids
           /\ sup_call' = SupCall("record_supplier_evaluation", supplier_id, scores,
                                  r.ok, r.error, None)
    /\ UNCHANGED <<inventory, purchase_orders, procurement_options, mat_call>>
    /\ UNCHANGED <<calendar, calVars, allocVars, svcVars, qryVars, runVars>>

\* ERPService.recommend_supplier_for_item(item_id)
RecommendSupplierForItem(item_id) ==
    /\ sup_call' = SupCall("recommend_supplier_for_item", item_id, <<>>, TRUE, "",
                           recommend_supplier_for_item(suppliers, item_id))
    /\ UNCHANGED <<suppliers, supplier_evaluations, uuid_calls>>
    /\ UNCHANGED <<inventory, purchase_orders, procurement_options, mat_call>>
    /\ UNCHANGED <<calendar, calVars, allocVars, svcVars, qryVars, runVars>>

SpecSuppliersNext ==
    \/ \E supplier_id \in SupplierIds, scores \in ScoreSets :
           RecordSupplierEvaluation(supplier_id, scores)
    \/ \E item_id \in RecommendItemIds : RecommendSupplierForItem(item_id)

SpecSuppliers == SpecSuppliersInit /\ [][SpecSuppliersNext]_vars

\* a record_supplier_evaluation call that wrote an evaluation is made in the step
EvaluationStep ==
    /\ sup_call'.op = "record_supplier_evaluation"
    /\ Len(supplier_evaluations') = Len(supplier_evaluations) + 1

\* the evaluations of the supplier
EvaluationsOf(evaluations, supplier_id) ==
    SelectSeq(evaluations, LAMBDA e : e.supplier_id = supplier_id)

\* the sum of the overall scores of a list of evaluations
RECURSIVE SumOfOverall(_)
SumOfOverall(evaluations) ==
    IF evaluations = <<>> THEN 0
    ELSE Head(evaluations).overall_score + SumOfOverall(Tail(evaluations))

\* the supplier's count is the number of its evaluations and its rating times
\* the count is the sum of their overall scores
RatingIsMean(supplier, evaluations) ==
    /\ supplier.rating_count = Len(EvaluationsOf(evaluations, supplier.id))
    /\ supplier.rating * supplier.rating_count =
           SumOfOverall(EvaluationsOf(evaluations, supplier.id))

\* the evaluation written last
LastEvaluation(evaluations) == evaluations[Len(evaluations)]

\* C25: record_supplier_evaluation stores overall = mean of the three scores and
\* updates the supplier by new_rating = (old_rating x count + overall) /
\* (count + 1), the count growing by one; no other supplier changes; so every
\* supplier, having started at rating 0 and count 0, has as count the number n of
\* its evaluations and rating x n = the sum of their overall scores.
C25_RunningRating ==
    [][ EvaluationStep
        => /\ 3 * LastEvaluation(supplier_evaluations').overall_score =
                  (sup_call'.scores[1] + sup_call'.scores[2] + sup_call'.scores[3])
                      * RatingUnit
           /\ LastEvaluation(supplier_evaluations').supplier_id = sup_call'.id
           /\ \A j \in 1..Len(suppliers) :
                  IF suppliers[j].id = sup_call'.id
                  THEN /\ suppliers'[j].rating_count = suppliers[j].rating_count + 1
                       /\ suppliers'[j].rating * (suppliers[j].rating_count + 1) =
                              suppliers[j].rating * suppliers[j].rating_count
                                  + LastEvaluation(supplier_evaluations').overall_score
                  ELSE suppliers'[j] = suppliers[j]
           /\ \A j \in 1..Len(suppliers') :
                  RatingIsMean(suppliers'[j], supplier_evaluations')
      ]_vars

\* C25 witness: a supplier has two evaluations with different overall scores, its
\* rating lies between them, and another supplier has one evaluation
C25_Witness ==
    /\ sup_call.op = "record_supplier_evaluation"
    /\ sup_call.ok
    /\ \E j, l \in 1..Len(suppliers) :
           /\ j # l
           /\ suppliers[j].rating_count = 2
           /\ suppliers[l].rating_count = 1
           /\ \E e \in 1..Len(supplier_evaluations) :
                  /\ supplier_evaluations[e].supplier_id = suppliers[j].id
                  /\ supplier_evaluations[e].overall_score < suppliers[j].rating
           /\ suppliers[j].rating * 2 =
                  SumOfOverall(EvaluationsOf(supplier_evaluations, suppliers[j].id))

\* the supplier lists the item among its material item ids
Linked(supplier, item_id) == item_id \in supplier.material_item_ids

\* C26: recommend_supplier_for_item returns None exactly when no supplier is
\* linked to the item; the supplier it returns is one of the register, is linked
\* to the item, and no linked supplier has a strictly higher rating.
C26_HighestRatedLinked ==
    sup_call.op = "recommend_supplier_for_item"
    => /\ sup_call.result = None
              <=> ~\E j \in 1..Len(suppliers) : Linked(suppliers[j], sup_call.id)
       /\ sup_call.result # None
              => /\ \E j \in 1..Len(suppliers) : suppliers[j] = ValueOf(sup_call.result)
                 /\ Linked(ValueOf(sup_call.result), sup_call.id)
                 /\ \A j \in 1..Len(suppliers) :
                        Linked(suppliers[j], sup_call.id)
                        => suppliers[j].rating <= ValueOf(sup_call.result).rating

\* C26 witness: for steel the call returned s2, rated above s1, which is linked
\* to steel too and registered first
C26_Witness ==
    /\ sup_call.op = "recommend_supplier_for_item"
    /\ sup_call.id = "steel"
    /\ sup_call.result # None
    /\ ValueOf(sup_call.result).id = "s2"
    /\ Linked(suppliers[1], "steel")
    /\ suppliers[1].rating > 0
    /\ suppliers[1].rating < suppliers[2].rating

----------------------------------------------------------------------------
(* SpecLoop: _allocate_with_calendar and _next_shift_window, one loop pass per step *)

\* the window of one pass of `for day_offset in range(0, 60)`, or NoWindow when
\* the pass ends in `continue` or finds no shift that ends after reference
WindowOfDay(cal, candidate_day, reference) ==
    IF candidate_day \in cal.non_working_days THEN NoWindow
    ELSE FirstUsableShift(candidate_day,
                          SortByStart(MatchingShifts(cal, WeekdayOf(candidate_day))),
                          reference)

\* a variant of NextDayOffset that stays on the same day
SameDayOffset(day_offset) == day_offset

\* the next value of `for day_offset in range(0, 60)`
NextDayOffset(day_offset) == day_offset + 1

\* the state of the allocator: pc is "enter", "scan" (inside _next_shift_window),
\* "window" (window returned, line 101), "returned" or "raised"
LoopState(pc, cursor, remaining, start_time, day_offset, window, span) ==
    [pc |-> pc, cursor |-> cursor, remaining |-> remaining, start_time |-> start_time,
     day_offset |-> day_offset, window |-> window, span |-> span]

SpecLoopInit ==
    /\ calendar \in Calendars
    /\ cal_call \in { [op |-> "allocate_with_calendar", reference |-> reference,
                       duration_hours |-> duration_hours] :
                      reference \in References, duration_hours \in CalDurations }
    /\ cal_result = LoopState("enter", 0, 0, NoTime, 0, NoWindow, Raised(""))
    /\ ms = 0 /\ alloc_call = 0 /\ alloc_result = 0 /\ alloc_log = 0
    /\ orders = 0 /\ machine_schedules = 0 /\ planning_options = 0
    /\ last_call = 0
    /\ QryIdle
    /\ MatIdle
    /\ SupIdle
    /\ RunIdle

\* lines 91-95: remaining = timedelta(hours=duration_hours); ValueError unless positive
EnterAllocator ==
    /\ cal_result.pc = "enter"
    /\ cal_result' =
           IF Hours(cal_call.duration_hours) <= 0
           THEN LoopState("raised", 0, 0, NoTime, 0, NoWindow, Raised(ValueError))
           ELSE LoopState("scan", cal_call.reference, Hours(cal_call.duration_hours),
                          NoTime, 0, NoWindow, Raised(""))
    /\ UNCHANGED <<calendar, cal_call, allocVars, svcVars, qryVars, matVars, supVars, runVars>>

\* one pass of the day loop of _next_shift_window(calendar, cursor)
ExamineDay ==
    /\ cal_result.pc = "scan"
    /\ cal_result.day_offset < HorizonDays
    /\ \E w \in {WindowOfDay(calendar, DateOf(cal_result.cursor) + cal_result.day_offset,
                             cal_result.cursor)} :
           cal_result' =
               IF w.found
               THEN [cal_result EXCEPT !.pc = "window", !.window = w]
               ELSE [cal_result EXCEPT !.day_offset = NextDayOffset(@)]
    /\ UNCHANGED <<calendar, cal_call, allocVars, svcVars, qryVars, matVars, supVars, runVars>>

\* the day loop is over: _next_shift_window returns None and the allocator raises
\* RuntimeError (lines 83, 99-100)
HorizonExhausted ==
    /\ cal_result.pc = "scan"
    /\ cal_result.day_offset >= HorizonDays
    /\ cal_result' = [cal_result EXCEPT !.pc = "raised", !.span = Raised(RuntimeError)]
    /\ UNCHANGED <<calendar, cal_call, allocVars, svcVars, qryVars, matVars, supVars, runVars>>

\* lines 101-114 for a cursor already at max(cursor, window_start)
ConsumeFrom(state, cur, available) ==
    IF available <= 0
    THEN [state EXCEPT !.pc = "scan", !.cursor = state.window.end + WindowSkip,
                       !.day_offset = 0]
    ELSE IF state.remaining - Min(available, state.remaining) <= 0
    THEN [state EXCEPT !.pc = "returned",
                       !.cursor = cur + Min(available, state.remaining),
                       !.remaining = @ - Min(available, state.remaining),
                       !.start_time = IF @ = NoTime THEN cur ELSE @,
                       !.span = Span(IF state.start_time = NoTime THEN cur
                                     ELSE state.start_time,
                                     cur + Min(available, state.remaining))]
    ELSE [state EXCEPT !.pc = "scan", !.cursor = state.window.end + WindowSkip,
                       !.remaining = @ - Min(available, state.remaining),
                       !.start_time = IF @ = NoTime THEN cur ELSE @,
                       !.day_offset = 0]

\* one pass of the while loop after the window is known
ConsumeStep ==
    /\ cal_result.pc = "window"
    /\ cal_result' =
           ConsumeFrom(cal_result, Max(cal_result.cursor, cal_result.window.start),
                       cal_result.window.end
                           - Max(cal_result.cursor, cal_result.window.start))
    /\ UNCHANGED <<calendar, cal_call, allocVars, svcVars, qryVars, matVars, supVars, runVars>>

SpecLoopNext == EnterAllocator \/ ExamineDay \/ HorizonExhausted \/ ConsumeStep

\* the interpreter runs the call to its end: every pass that can be made is made
SpecLoop == SpecLoopInit /\ [][SpecLoopNext]_vars /\ WF_vars(SpecLoopNext)

\* the call is over
LoopDone == cal_result.pc \in {"returned", "raised"}

\* the outcome of the stepwise run is the outcome of allocate_with_calendar
LoopAgrees ==
    LoopDone => cal_result.span = allocate_with_calendar(calendar, cal_call.reference,
                                                         cal_call.duration_hours)

\* no day of the resolver's horizon from the cursor has a usable window
NoWindowInHorizon(cal, reference) ==
    \A day_offset \in 0..(HorizonDays - 1) :
        ~WindowOfDay(cal, DateOf(reference) + day_offset, reference).found

\* C27: the resolver examines at most 60 days from its reference and the
\* allocator fails for lack of capacity (RuntimeError) exactly when none of them
\* has a usable window; every pass of the allocator's loop consumes working time
\* and advances the cursor; and every call, whatever the duration, ends: for a
\* positive duration it returns a span or raises that error.
C27_AlwaysTerminates ==
    /\ [](cal_result.day_offset <= HorizonDays)
    /\ []((cal_result.pc = "raised" /\ Hours(cal_call.duration_hours) > 0)
              => /\ cal_result.span = Raised(RuntimeError)
                 /\ NoWindowInHorizon(calendar, cal_result.cursor))
    /\ []((cal_result.pc = "returned")
              => /\ cal_result.span.ok
                 /\ cal_result.remaining = 0
                 /\ cal_result.span.end > cal_result.span.start)
    /\ [][ cal_result.pc = "window"
           => /\ cal_result'.cursor > cal_result.cursor
              /\ cal_result'.remaining < cal_result.remaining ]_vars
    /\ <>LoopDone

\* C27 witness: a call for 20 hours has ended with a span longer than 20 hours,
\* made of several windows
C27_Witness ==
    /\ cal_result.pc = "returned"
    /\ cal_call.duration_hours = 20
    /\ cal_result.span.end - cal_result.span.start > Hours(20)

----------------------------------------------------------------------------
(* SpecRun: one backlog run followed statement by statement, with the calls
   another caller of the same service makes between its statements *)

\* Number of schedule_operations calls made in the session before the run.
MaxRunCalls == 2
\* Number of calls made by another caller between the statements of the run.
MaxNested == 1

\* where schedule_backlog stands ("idle": not called yet; "cleared": line 654
\* done; "loop": in the for loop; "done": returned or raised), its locals, the
\* schedules the reset statement found, and the ScheduledOperations returned
\* since the machine schedules were last cleared
BacklogRun(pc, args, backlog, i, ok, calls, nested, found, since_reset) ==
    [pc |-> pc, args |-> args, backlog |-> backlog, i |-> i, ok |-> ok,
     calls |-> calls, nested |-> nested, found |-> found,
     since_reset |-> since_reset]

\* the ScheduledOperations a schedule_operations call returned
Recorded(r) == IF r.ok THEN r.summary.scheduled_operations ELSE <<>>

\* the ScheduledOperations of the summaries of a whole backlog run
RECURSIVE RecordedByRun(_)
RecordedByRun(summaries) ==
    IF summaries = <<>> THEN <<>>
    ELSE Head(summaries).scheduled_operations \o RecordedByRun(Tail(summaries))

\* the ids of the orders of a list
IdsOf(order_list) == [k \in 1..Len(order_list) |-> order_list[k].id]

\* the arguments of the run
RunArgs == { <<NoTime, None, None>>, <<Combine(1, Clock(2)), Some(10), Some(2)>> }

\* every order of the book can be scheduled
SpecRunInit ==
    /\ calendar = [shifts |-> <<EarlyShift, LateShift>>, non_working_days |-> {1}]
    /\ orders \in {BacklogBook(p1, 5, NORMAL, 30) : p1 \in {LOW, HIGH}}
    /\ planning_options \in SvcOptions
    /\ machine_schedules = <<>>
    /\ last_call = NoCall
    /\ backlog_run = BacklogRun("idle", <<NoTime, None, None>>, <<>>, 0, TRUE, 0, 0,
                                <<>>, <<>>)
    /\ cal_call = 0 /\ cal_result = 0
    /\ ms = 0 /\ alloc_call = 0 /\ alloc_result = 0 /\ alloc_log = 0
    /\ QryIdle
    /\ MatIdle
    /\ SupIdle

\* schedule_operations called before the run
CallBeforeRun(order_id) ==
    /\ backlog_run.pc = "idle"
    /\ backlog_run.calls < MaxRunCalls
    /\ \E r \in {schedule_operations(orders, machine_schedules, calendar,
                                     planning_options, order_id, NoTime)} :
          /\ orders' = r.orders
          /\ machine_schedules' = r.schedules
          /\ backlog_run' = [backlog_run EXCEPT
                               !.calls = @ + 1,
                               !.since_reset = @ \o Recorded(r)]
    /\ UNCHANGED <<calendar, planning_options, last_call, calVars, allocVars, qryVars, matVars, supVars>>

\* schedule_backlog, line 654: self.reset_machine_schedules()
BeginRun(args) ==
    /\ backlog_run.pc = "idle"
    /\ machine_schedules' = reset_machine_schedules(machine_schedules)
    /\ backlog_run' = [backlog_run EXCEPT
                         !.pc = "cleared", !.args = args,
                         !.found = machine_schedules, !.since_reset = <<>>]
    /\ UNCHANGED <<orders, calendar, planning_options, last_call, calVars, allocVars, qryVars, matVars, supVars>>

\* schedule_backlog, lines 655-692: the locals, the filters, the sort and the cap
PrepareBacklog ==
    /\ backlog_run.pc = "cleared"
    /\ backlog_run' = [backlog_run EXCEPT
                         !.pc = "loop",
                         !.backlog = IdsOf(BacklogOrders(orders, planning_options,
                                                         backlog_run.args[2],
                                                         backlog_run.args[3])),
                         !.i = 1]
    /\ UNCHANGED <<orders, machine_schedules, calendar, planning_options, last_call, calVars, allocVars, qryVars, matVars, supVars>>

\* schedule_backlog, lines 693-696: one pass of the loop; an exception ends the run
RunOrder ==
    /\ backlog_run.pc = "loop"
    /\ backlog_run.i <= Len(backlog_run.backlog)
    /\ \E r \in {schedule_operations(orders, machine_schedules, calendar,
                                     planning_options,
                                     backlog_run.backlog[backlog_run.i],
                                     StartOrDefault(backlog_run.args[1]))} :
          /\ orders' = r.orders
          /\ machine_schedules' = r.schedules
          /\ backlog_run' = [backlog_run EXCEPT
                               !.i = @ + 1,
                               !.ok = r.ok,
                               !.pc = IF r.ok THEN "loop" ELSE "done",
                               !.since_reset = @ \o Recorded(r)]
    /\ UNCHANGED <<calendar, planning_options, last_call, calVars, allocVars, qryVars, matVars, supVars>>

\* schedule_backlog, line 697: return summaries
ReturnSummaries ==
    /\ backlog_run.pc = "loop"
    /\ backlog_run.i > Len(backlog_run.backlog)
    /\ backlog_run' = [backlog_run EXCEPT !.pc = "done"]
    /\ UNCHANGED <<orders, machine_schedules, calendar, planning_options, last_call, calVars, allocVars, qryVars, matVars, supVars>>

\* schedule_operations called by another caller between two statements of the run
NestedScheduleOrder(order_id) ==
    /\ backlog_run.pc \in {"cleared", "loop"}
    /\ backlog_run.nested < MaxNested
    /\ \E r \in {schedule_operations(orders, machine_schedules, calendar,
                                     planning_options, order_id, NoTime)} :
          /\ orders' = r.orders
          /\ machine_schedules' = r.schedules
          /\ backlog_run' = [backlog_run EXCEPT
                               !.nested = @ + 1,
                               !.since_reset = @ \o Recorded(r)]
    /\ UNCHANGED <<calendar, planning_options, last_call, calVars, allocVars, qryVars, matVars, supVars>>

\* schedule_backlog called by another caller between two statements of the run,
\* and run to its end there: it clears the schedules again
NestedScheduleBacklog(args) ==
    /\ backlog_run.pc \in {"cleared", "loop"}
    /\ backlog_run.nested < MaxNested
    /\ \E r \in {schedule_backlog(orders, machine_schedules, calendar,
                                  planning_options, args[1], args[2], args[3])} :
          /\ orders' = r.orders
          /\ machine_schedules' = r.schedules
          /\ backlog_run' = [backlog_run EXCEPT
                               !.nested = @ + 1,
                               !.since_reset = RecordedByRun(r.summaries)]
    /\ UNCHANGED <<calendar, planning_options, last_call, calVars, allocVars, qryVars, matVars, supVars>>

SpecRunNext ==
    \/ \E order_id \in OrderIds : CallBeforeRun(order_id)
    \/ \E args \in RunArgs : BeginRun(args)
    \/ PrepareBacklog
    \/ RunOrder
    \/ ReturnSummaries
    \/ \E order_id \in OrderIds : NestedScheduleOrder(order_id)
    \/ \E args \in RunArgs : NestedScheduleBacklog(args)

SpecRun == SpecRunInit /\ [][SpecRunNext]_vars

\* the step is the reset statement of the run
ResetStep == backlog_run.pc = "idle" /\ backlog_run'.pc = "cleared"

\* the ScheduledOperations of a list that are on the machine
OnMachine(scheduled_operations, machine_id) ==
    SelectSeq(scheduled_operations, LAMBDA s : s.machine_id = machine_id)

\* the hours allocate added to the machine's load for a ScheduledOperation
HoursOf(scheduled) ==
    LET order == OrderById(orders, scheduled.order_id)
        k == CHOOSE k \in 1..Len(order.operations) :
                 order.operations[k].operation.id = scheduled.operation_id
    IN  EffectiveDuration(order.operations[k].operation,
                          Max(planning_options.setup_time_factor, 0))

RECURSIVE SumOfHours(_)
SumOfHours(scheduled_operations) ==
    IF scheduled_operations = <<>> THEN 0
    ELSE HoursOf(Head(scheduled_operations)) + SumOfHours(Tail(scheduled_operations))

\* the cached schedules hold what was allocated since they were last cleared,
\* and nothing else
OnlySinceReset ==
    \A id \in DOMAIN machine_schedules :
        /\ machine_schedules[id].operations = OnMachine(backlog_run.since_reset, id)
        /\ machine_schedules[id].total_allocated_hours
              = SumOfHours(OnMachine(backlog_run.since_reset, id))

\* C28: the reset of a backlog run is atomic relative to the run: the reset
\* statement leaves no machine with a cached schedule, so no caller, a
\* schedule_operations or schedule_backlog call interleaved with the run
\* included, finds some machines cleared and others not; and at every point of
\* the run the operations and the load of every machine are those allocated
\* since the schedules were last cleared: no allocation made before survives.
C28_AtomicReset ==
    /\ [][ResetStep => DOMAIN machine_schedules' = {}]_vars
    /\ [](backlog_run.pc = "cleared" /\ backlog_run.nested = 0
             => machine_schedules = <<>>)
    /\ []OnlySinceReset

\* the run found schedules on both machines, another caller scheduled an order
\* between its statements, and it went on to schedule two orders of its own
C28_Witness ==
    /\ backlog_run.pc = "done"
    /\ backlog_run.ok
    /\ DOMAIN backlog_run.found = {"m1", "m2"}
    /\ \A id \in DOMAIN backlog_run.found : backlog_run.found[id].operations # <<>>
    /\ backlog_run.nested = 1
    /\ Len(backlog_run.backlog) >= 2
    /\ \E id \in DOMAIN machine_schedules : Len(machine_schedules[id].operations) >= 2

----------------------------------------------------------------------------
(* Claims about the order within one priority, checked under SpecBacklog *)

\* the order schedule_operations was called for at position i of the last run
RunOrderAt(i) == OrderById(orders, last_call.sequence[i])

\* due_weight = max(options.due_date_weight, 0.0), as the run computed it
DueWeight == Max(planning_options.due_date_weight, 0)

\* C29: within one priority a backlog run processes the orders by weighted due
\* date, then by creation time: of two orders of the run with equal priority the
\* one due earlier has its schedule_operations call made first when the due-date
\* weight is > 0, and of two with equal priority and equal weighted due date
\* (same due date, or a due-date weight of 0) the one created earlier comes first.
C29_DueDateThenCreation ==
    last_call.op = "schedule_backlog" =>
        \A i, j \in 1..Len(last_call.sequence) :
            RunOrderAt(i).priority = RunOrderAt(j).priority =>
                /\ (DueWeight > 0 /\ RunOrderAt(i).due_date < RunOrderAt(j).due_date)
                      => i < j
                /\ ((RunOrderAt(i).due_date = RunOrderAt(j).due_date \/ DueWeight = 0)
                       /\ RunOrderAt(i).created_at < RunOrderAt(j).created_at)
                      => i < j

\* a run over three orders of one priority under a positive due-date weight: the
\* first went before an order created earlier but due later, and before an order
\* due the same day but created later
C29_Witness ==
    /\ last_call.op = "schedule_backlog"
    /\ DueWeight > 0
    /\ Len(last_call.sequence) = 3
    /\ \A i \in 1..3 : RunOrderAt(i).priority = RunOrderAt(1).priority
    /\ RunOrderAt(1).due_date < RunOrderAt(3).due_date
    /\ RunOrderAt(1).created_at > RunOrderAt(3).created_at
    /\ RunOrderAt(1).due_date = RunOrderAt(2).due_date
    /\ RunOrderAt(1).created_at < RunOrderAt(2).created_at

----------------------------------------------------------------------------
(* Claims about the load of a machine across orders, checked under Spec *)

\* the gap between operations of the session, in minutes: the options change
\* only together with a reset of the schedules
SessionGap == Max(planning_options.gap_between_operations_minutes, 0)

\* the ScheduledOperations recorded on a machine, in the order they were recorded
RecordedOn(machine_id) == machine_schedules[machine_id].operations

\* C30: within one session the allocations on one machine never overlap, across
\* all orders: each ScheduledOperation recorded on a machine starts no earlier
\* than the end of the one recorded before it on that machine plus the gap
\* between operations, and none starts before the start reference of the call
\* that produced it; so in a backlog run an order scheduled later is placed
\* after the load the orders scheduled before it left on the machine.
C30_NoOverlapOnMachine ==
    /\ \A id \in DOMAIN machine_schedules :
          \A k \in 1..(Len(RecordedOn(id)) - 1) :
             RecordedOn(id)[k + 1].start >= RecordedOn(id)[k].end + SessionGap
    /\ \A i \in 1..Len(last_call.summaries) :
          \A k \in 1..Len(last_call.summaries[i].scheduled_operations) :
             last_call.summaries[i].scheduled_operations[k].start
                >= StartOrDefault(last_call.start_reference)
    /\ last_call.op = "schedule_backlog" =>
          \A i, j \in 1..Len(last_call.summaries) :
             i < j =>
                \A a \in 1..Len(last_call.summaries[i].scheduled_operations),
                   b \in 1..Len(last_call.summaries[j].scheduled_operations) :
                   (last_call.summaries[i].scheduled_operations[a].machine_id
                       = last_call.summaries[j].scheduled_operations[b].machine_id)
                   => last_call.summaries[j].scheduled_operations[b].start
                         >= last_call.summaries[i].scheduled_operations[a].end
                               + SessionGap

\* a backlog run under a gap of 30 minutes put two orders on one machine: the
\* later one starts after the run's start reference, pushed back by the earlier
C30_Witness ==
    /\ last_call.op = "schedule_backlog"
    /\ last_call.ok
    /\ SessionGap > 0
    /\ \E id \in DOMAIN machine_schedules :
          \E k \in 1..(Len(RecordedOn(id)) - 1) :
             /\ RecordedOn(id)[k].order_id # RecordedOn(id)[k + 1].order_id
             /\ RecordedOn(id)[k + 1].order_id
                   = last_call.summaries[Len(last_call.summaries)].order_id
             /\ RecordedOn(id)[k + 1].start > StartOrDefault(last_call.start_reference)
             /\ RecordedOn(id)[k + 1].start >= RecordedOn(id)[k].end + SessionGap

----------------------------------------------------------------------------
(* Claims about the span of an allocation, checked under SpecAlloc *)

\* the step is an allocate call that returned a ScheduledOperation
AllocateReturned == alloc_call'.n = alloc_call.n + 1 /\ alloc_result'.ok

\* duration + setup x factor of the operation of the call, in minutes
EffectiveMinutes(call) ==
    Hours(call.operation.duration_hours
             + call.operation.setup_time_hours * call.setup_time_factor)

\* some shift of the calendar, begun on a working day, works at the instant t
WorkingAt(t) ==
    \E i \in 1..Len(calendar.shifts) :
        \E day \in (DateOf(t) - 1)..DateOf(t) : WorksWithin(i, day, t, t + 1)

\* the instants at which a shift of the calendar ends, from the day before the
\* span starts to the day it ends
ShiftEndsAround(start, end) ==
    { ShiftEndOn(day, calendar.shifts[i]) :
        i \in 1..Len(calendar.shifts), day \in (DateOf(start) - 1)..DateOf(end) }

\* the span [start, end) holds an instant at which no shift works; working time
\* can only stop where a shift ends
CrossesNonWorkingGap(start, end) ==
    \E t \in ShiftEndsAround(start, end) : start <= t /\ t < end /\ ~WorkingAt(t)

\* C31: for every successful allocation start >= max(next_available,
\* earliest_start) and end - start >= duration + setup x factor; without a
\* calendar start is that maximum and end - start the effective duration
\* exactly; with a calendar end - start exceeds the effective duration only
\* when the span crosses a non-working gap.
C31_AllocationSpan ==
    [][ AllocateReturned =>
          LET scheduled == alloc_result'.scheduled
              candidate == Max(ms.next_available, alloc_call'.earliest_start)
              effective == EffectiveMinutes(alloc_call')
          IN  /\ scheduled.start >= candidate
              /\ scheduled.end - scheduled.start >= effective
              /\ ms.calendar = NoCalendar =>
                    /\ scheduled.start = candidate
                    /\ scheduled.end - scheduled.start = effective
              /\ (ms.calendar # NoCalendar
                     /\ scheduled.end - scheduled.start > effective)
                    => CrossesNonWorkingGap(scheduled.start, scheduled.end) ]_vars

\* what holds of every successful allocation: the bounds, the exact span without
\* a calendar, and with a calendar a span longer than the effective duration
\* only when it passes from one shift window into another
AllocationSpanBounds ==
    [][ AllocateReturned =>
          LET scheduled == alloc_result'.scheduled
              candidate == Max(ms.next_available, alloc_call'.earliest_start)
              effective == EffectiveMinutes(alloc_call')
          IN  /\ scheduled.start >= candidate
              /\ scheduled.end - scheduled.start >= effective
              /\ ms.calendar = NoCalendar =>
                    /\ scheduled.start = candidate
                    /\ scheduled.end - scheduled.start = effective
              /\ (ms.calendar # NoCalendar
                     /\ scheduled.end - scheduled.start > effective)
                    => \E t \in ShiftEndsAround(scheduled.start, scheduled.end) :
                          scheduled.start < t /\ t < scheduled.end ]_vars

----------------------------------------------------------------------------
(* Claims about the working time of an allocated span, checked under SpecCal *)

\* the allocator returned a span
AllocatorReturned ==
    /\ cal_call.op = "allocate_with_calendar"
    /\ cal_result.span.ok

\* the working time of shift i begun on day that lies in [from, to), in minutes
WorkingTimeOfShift(i, day, from, to) ==
    IF WorksWithin(i, day, from, to)
    THEN Min(ShiftEndOn(day, calendar.shifts[i]), to)
            - Max(ShiftStartOn(day, calendar.shifts[i]), from)
    ELSE 0

\* the working time in [from, to) of the first n shifts of the calendar begun on day
RECURSIVE WorkingTimeOfDay(_, _, _, _)
WorkingTimeOfDay(n, day, from, to) ==
    IF n = 0 THEN 0
    ELSE WorkingTimeOfShift(n, day, from, to) + WorkingTimeOfDay(n - 1, day, from, to)

\* the working time in [from, to) of the shifts begun on the days first..last;
\* the shifts of the pool do not overlap, so no instant is counted twice
RECURSIVE WorkingTimeOfDays(_, _, _, _)
WorkingTimeOfDays(first, last, from, to) ==
    IF first > last THEN 0
    ELSE WorkingTimeOfDay(Len(calendar.shifts), first, from, to)
            + WorkingTimeOfDays(first + 1, last, from, to)

\* the working time of the calendar's shifts contained in [from, to)
WorkingTimeIn(from, to) ==
    WorkingTimeOfDays(DateOf(from) - 1, DateOf(to), from, to)

\* C32: the calendar-aware allocator consumes exactly the required duration of
\* working time: the working time of the calendar's shifts contained in the
\* returned span [start, end) equals the duration asked for, also when the
\* allocation passes from one shift directly into a contiguous next shift.
C32_ConsumesExactDuration ==
    AllocatorReturned =>
        WorkingTimeIn(cal_result.span.start, cal_result.span.end)
            = Hours(cal_call.duration_hours)

----------------------------------------------------------------------------
(* Claims about the dates the allocator works on, checked under SpecLoop *)

\* the step is a pass of the while loop that consumes part of its window
ConsumesWindow ==
    /\ cal_result.pc = "window"
    /\ cal_result'.pc \in {"scan", "returned"}
    /\ cal_result.window.end > Max(cal_result.cursor, cal_result.window.start)

\* the first instant the pass consumes: cursor = max(cursor, window_start)
ConsumedFrom == Max(cal_result.cursor, cal_result.window.start)

\* the instant the pass consumes up to: cursor + min(available, remaining)
ConsumedTo ==
    ConsumedFrom + Min(cal_result.window.end - ConsumedFrom, cal_result.remaining)

\* C33: the calendar-aware allocator never places working time on a non-working
\* date: no part of a window it consumes lies on a date of the calendar's
\* non-working set, the after-midnight part of an overnight shift begun on the
\* working day before included.
C33_NoWorkOnNonWorkingDate ==
    [][ ConsumesWindow =>
          \A day \in DateOf(ConsumedFrom)..DateOf(ConsumedTo - 1) :
             day \notin calendar.non_working_days ]_vars

\* what holds of every pass: the consumed part begins on a working date
ConsumedPartBeginsOnWorkingDate ==
    [][ ConsumesWindow => DateOf(ConsumedFrom) \notin calendar.non_working_days ]_vars

----------------------------------------------------------------------------
(* Claims about the machine load a failed call leaves behind, checked under Spec *)

\* the ScheduledOperations recorded on a machine; none when it has no schedule yet
OperationsOn(schedules, machine_id) ==
    IF machine_id \in DOMAIN schedules THEN schedules[machine_id].operations ELSE <<>>

\* the cumulative hours of a machine; 0 when it has no schedule yet
HoursOn(schedules, machine_id) ==
    IF machine_id \in DOMAIN schedules
    THEN schedules[machine_id].total_allocated_hours ELSE 0

\* the ScheduledOperations the step recorded on the machine
AppendedOn(machine_id) ==
    SubSeq(OperationsOn(machine_schedules', machine_id),
           Len(OperationsOn(machine_schedules, machine_id)) + 1,
           Len(OperationsOn(machine_schedules', machine_id)))

\* the plans of the order of the call that the step wrote
PlansWritten ==
    { k \in 1..Len(OrderById(orders, last_call'.order_id).operations) :
        OrderById(orders', last_call'.order_id).operations[k]
            # OrderById(orders, last_call'.order_id).operations[k] }

\* the allocation written into plan k is the one recorded last on its machine
\* or before other allocations of the same call
RecordedForPlan(k) ==
    LET plan == OrderById(orders', last_call'.order_id).operations[k]
    IN  /\ plan.assigned_machine_id \in DOMAIN machine_schedules'
        /\ \E n \in 1..Len(AppendedOn(plan.assigned_machine_id)) :
              /\ AppendedOn(plan.assigned_machine_id)[n].operation_id = plan.operation.id
              /\ AppendedOn(plan.assigned_machine_id)[n].start = plan.scheduled_start
              /\ AppendedOn(plan.assigned_machine_id)[n].end = plan.scheduled_end

\* the step keeps what was recorded on every machine and adds to it: the
\* operations before stay, the hours grow by those of the operations added, and
\* the cursor stands after the last one
LoadKept ==
    \A id \in DOMAIN machine_schedules :
        /\ id \in DOMAIN machine_schedules'
        /\ SubSeq(machine_schedules'[id].operations, 1,
                  Len(machine_schedules[id].operations))
              = machine_schedules[id].operations
        /\ machine_schedules'[id].total_allocated_hours
              = machine_schedules[id].total_allocated_hours
                   + SumOfHours(AppendedOn(id))
        /\ machine_schedules'[id].next_available >= machine_schedules[id].next_available
        /\ \A n \in 1..Len(AppendedOn(id)) :
              AppendedOn(id)[n].start >= machine_schedules[id].next_available

\* C34: when schedule_operations fails at the k-th operation of an order, the
\* machine load of its operations 1..k-1 is not rolled back: each of them stays
\* recorded on its machine, whose cumulative hours include it and whose cursor
\* stands at or after its end plus the gap; and every later schedule_operations
\* call of the session keeps that load and starts its own operations on the
\* machine at or after that cursor, until the schedules are reset.
C34_FailedCallKeepsLoad ==
    [][ ScheduleOrderStep =>
          /\ LoadKept
          /\ ~last_call'.ok =>
                \A k \in PlansWritten :
                   /\ RecordedForPlan(k)
                   /\ HoursOn(machine_schedules',
                              OrderById(orders', last_call'.order_id)
                                 .operations[k].assigned_machine_id)
                         >= HoursOn(machine_schedules,
                                    OrderById(orders', last_call'.order_id)
                                       .operations[k].assigned_machine_id)
                            + HoursOf([order_id |-> last_call'.order_id,
                                       operation_id |->
                                          OrderById(orders, last_call'.order_id)
                                             .operations[k].operation.id])
                   /\ machine_schedules'[OrderById(orders', last_call'.order_id)
                                            .operations[k].assigned_machine_id]
                         .next_available
                         >= OrderById(orders', last_call'.order_id)
                               .operations[k].scheduled_end + SessionGap ]_vars

\* an order was scheduled on a machine behind the operation of an order whose
\* scheduling had failed at its second operation: it starts after the start
\* reference, and the machine's hours count both
C34_Witness ==
    /\ last_call.op = "schedule_operations"
    /\ last_call.ok
    /\ last_call.order_id # "o3"
    /\ Len(OrderById(orders, "o3").operations) = 2
    /\ OrderById(orders, "o3").operations[1].assigned_machine_id # NoMachine
    /\ OrderById(orders, "o3").operations[2].assigned_machine_id = NoMachine
    /\ \E id \in DOMAIN machine_schedules :
          \E n \in 1..(Len(RecordedOn(id)) - 1) :
             /\ RecordedOn(id)[n].order_id = "o3"
             /\ RecordedOn(id)[n + 1].order_id = last_call.order_id
             /\ RecordedOn(id)[n + 1].start >= RecordedOn(id)[n].end + SessionGap
             /\ RecordedOn(id)[n + 1].start > StartOrDefault(last_call.start_reference)
             /\ machine_schedules[id].total_allocated_hours
                   >= HoursOf(RecordedOn(id)[n]) + HoursOf(RecordedOn(id)[n + 1])

----------------------------------------------------------------------------
(* Claims about a failed allocation, checked under SpecAlloc *)

\* the step is an allocate call that raised
AllocateRaised == alloc_call'.n = alloc_call.n + 1 /\ ~alloc_result'.ok

\* C35: a failed allocation leaves the machine schedule unchanged: when allocate
\* raises, for an effective duration <= 0 or for want of a shift window within
\* the horizon, next_available, total_allocated_hours and the list of
\* ScheduledOperations are what they were before the call.
C35_FailedAllocationChangesNothing ==
    [][ AllocateRaised =>
          /\ alloc_result'.error \in {ValueError, RuntimeError}
          /\ alloc_result'.error = ValueError
                <=> EffectiveMinutes(alloc_call') <= 0
          /\ ms'.next_available = ms.next_available
          /\ ms'.total_allocated_hours = ms.total_allocated_hours
          /\ ms'.operations = ms.operations
          /\ ms' = ms ]_vars

\* a call with an effective duration <= 0 and an earliest start after the cursor
\* raised on a schedule that holds two allocations
C35_Witness ==
    /\ alloc_call.n = 3
    /\ ~alloc_result.ok
    /\ alloc_result.error = ValueError
    /\ Len(ms.operations) = 2
    /\ alloc_call.earliest_start > ms.next_available
    /\ ms.total_allocated_hours > 0

----------------------------------------------------------------------------
(* Claims about the summary of schedule_operations, checked under Spec *)

\* the last call was schedule_operations and returned a summary
OrderSummaryReturned == last_call.op = "schedule_operations" /\ last_call.ok

\* the machines an operation was allocated to in the call of the summary
MachinesUsed(summary) ==
    { summary.scheduled_operations[k].machine_id :
        k \in 1..Len(summary.scheduled_operations) }

\* the last ScheduledOperation of the summary on the machine
LastOn(summary, machine_id) ==
    summary.scheduled_operations[
        CHOOSE k \in 1..Len(summary.scheduled_operations) :
            /\ summary.scheduled_operations[k].machine_id = machine_id
            /\ \A n \in (k + 1)..Len(summary.scheduled_operations) :
                  summary.scheduled_operations[n].machine_id # machine_id]

\* C36: in the summary schedule_operations returns, the keys of the load map
\* are exactly the machines an operation was allocated to in this call and each
\* value is the machine's cumulative hours at the end of the call; the overload
\* map holds a machine if and only if that load strictly exceeds its weekly
\* capacity, with the value load - capacity > 0, and exactly when the last
\* operation allocated to it in this call carries the exceeds-capacity flag.
C36_SummaryLoads ==
    OrderSummaryReturned =>
        LET summary == last_call.summaries[1] IN
        /\ DOMAIN summary.machine_loads = MachinesUsed(summary)
        /\ \A id \in DOMAIN summary.machine_loads :
              /\ summary.machine_loads[id] = machine_schedules[id].total_allocated_hours
              /\ id \in DOMAIN summary.overloaded_machines
                    <=> summary.machine_loads[id]
                           > MachineById(id).capacity_hours_per_week
              /\ id \in DOMAIN summary.overloaded_machines
                    <=> LastOn(summary, id).exceeds_capacity
        /\ DOMAIN summary.overloaded_machines \subseteq DOMAIN summary.machine_loads
        /\ \A id \in DOMAIN summary.overloaded_machines :
              /\ summary.overloaded_machines[id]
                    = summary.machine_loads[id] - MachineById(id).capacity_hours_per_week
              /\ summary.overloaded_machines[id] > 0

\* a call allocated on two machines, one of them loaded in an earlier call: one
\* is over its capacity and in the overload map, the other is not
C36_Witness ==
    /\ OrderSummaryReturned
    /\ Cardinality(DOMAIN last_call.summaries[1].machine_loads) = 2
    /\ Cardinality(DOMAIN last_call.summaries[1].overloaded_machines) = 1
    /\ \E id \in DOMAIN last_call.summaries[1].machine_loads :
          last_call.summaries[1].machine_loads[id]
             > SumOfHours(OnMachine(last_call.summaries[1].scheduled_operations, id))

----------------------------------------------------------------------------
(* Claims about a non-working day added at runtime, checked under Spec *)

\* the step is a call of add_non_working_day(calendar_id, day) for the day Spec adds
AddNonWorkingDayStep ==
    /\ last_call'.n = last_call.n + 1
    /\ last_call'.op = "add_non_working_day"

\* the ScheduledOperations of the summaries of the last call that are on a
\* machine referencing the calendar
OnCalendarMachines ==
    { s \in UNION { { last_call.summaries[i].scheduled_operations[k] :
                        k \in 1..Len(last_call.summaries[i].scheduled_operations) } :
                    i \in 1..Len(last_call.summaries) } :
        MachineById(s.machine_id).shift_calendar_id = CalendarId }

\* C37: a non-working day added to a calendar at runtime takes effect for every
\* later allocation of the session: after add_non_working_day(calendar, d) the
\* day is in the calendar's set and stays there, and no operation allocated
\* afterwards on a machine referencing the calendar starts on a non-working day
\* or ends in a window of one (the shifts of the service's calendars lie within
\* one date); the operations already scheduled on d keep their times.
C37_NonWorkingDayTakesEffect ==
    /\ [][ AddNonWorkingDayStep =>
             /\ Today \in calendar'.non_working_days
             /\ orders' = orders
             /\ machine_schedules' = machine_schedules ]_vars
    /\ [][ calendar.non_working_days \subseteq calendar'.non_working_days ]_vars
    /\ [](\A s \in OnCalendarMachines :
             /\ DateOf(s.start) \notin calendar.non_working_days
             /\ DateOf(s.end - 1) \notin calendar.non_working_days)

\* the machine with the calendar got an operation on Monday, Monday was then
\* added to the non-working days, and the operation the last call allocated on
\* the machine starts on a later day
C37_Witness ==
    /\ last_call.op = "schedule_operations"
    /\ last_call.ok
    /\ Today \in calendar.non_working_days
    /\ "m2" \in DOMAIN machine_schedules
    /\ Len(RecordedOn("m2")) = 2
    /\ DateOf(RecordedOn("m2")[1].start) = Today
    /\ RecordedOn("m2")[2] \in OnCalendarMachines
    /\ DateOf(RecordedOn("m2")[2].start) > Today

----------------------------------------------------------------------------
(* Claims about the hours of a machine and the plans assigned to it, checked under Spec *)

\* the plans (order index, plan index) assigned to the machine by a call of the
\* session: the plan carries the machine, start and end of a ScheduledOperation
\* recorded on the machine's schedule for that order and operation
AssignedInSession(machine_id) ==
    { p \in UNION { { <<oi, k>> : k \in 1..Len(orders[oi].operations) } :
                    oi \in 1..Len(orders) } :
        /\ orders[p[1]].operations[p[2]].assigned_machine_id = machine_id
        /\ \E n \in 1..Len(RecordedOn(machine_id)) :
              /\ RecordedOn(machine_id)[n].order_id = orders[p[1]].id
              /\ RecordedOn(machine_id)[n].operation_id
                    = orders[p[1]].operations[p[2]].operation.id
              /\ RecordedOn(machine_id)[n].start
                    = orders[p[1]].operations[p[2]].scheduled_start
              /\ RecordedOn(machine_id)[n].end
                    = orders[p[1]].operations[p[2]].scheduled_end }

\* the sum of the effective durations of a set of plans
RECURSIVE SumOfPlanHours(_)
SumOfPlanHours(plans) ==
    IF plans = {} THEN 0
    ELSE LET p == CHOOSE p \in plans : TRUE
         IN  EffectiveDuration(orders[p[1]].operations[p[2]].operation,
                               Max(planning_options.setup_time_factor, 0))
                + SumOfPlanHours(plans \ {p})

\* C38: within a session each machine's cumulative allocated hours equal the sum
\* of the effective durations of the OperationPlans currently assigned to that
\* machine by scheduling calls of this session, also after schedule_operations
\* was called more than once for the same order without a reset in between.
C38_HoursMatchAssignedPlans ==
    \A id \in DOMAIN machine_schedules :
        machine_schedules[id].total_allocated_hours
            = SumOfPlanHours(AssignedInSession(id))

\* what holds instead: the hours of a machine are the sum over every
\* ScheduledOperation recorded on it in the session, re-scheduled ones included
HoursMatchRecordedOperations ==
    \A id \in DOMAIN machine_schedules :
        machine_schedules[id].total_allocated_hours = SumOfHours(RecordedOn(id))

----------------------------------------------------------------------------
(* Claims about the lifecycle of an order, checked under Spec *)

\* the stage of a status in the lifecycle Planned -> Released -> In-Progress -> Completed
StageOf(status) ==
    IF status = PLANNED THEN 1
    ELSE IF status = RELEASED THEN 2
    ELSE IF status = IN_PROGRESS THEN 3
    ELSE 4

\* a status change along the lifecycle: forward, or to Cancelled, and never out
\* of Completed or Cancelled
AlongLifecycle(from, to) ==
    \/ to = from
    \/ /\ from \notin {COMPLETED, CANCELLED}
       /\ \/ to = CANCELLED
          \/ StageOf(to) > StageOf(from)

\* C39: the status of an order only moves along the lifecycle Planned ->
\* Released -> In-Progress -> Completed, or to Cancelled: whatever scheduling
\* calls and status updates are made, no order goes back to an earlier stage and
\* none leaves Completed or Cancelled.
C39_StatusAlongLifecycle ==
    [][ \A i \in 1..Len(orders) :
           AlongLifecycle(orders[i].status, orders'[i].status) ]_vars

\* what holds of the scheduling calls: they change a status only from Planned
\* to Released
SchedulingOnlyReleases ==
    [][ last_call'.op \in {"schedule_operations", "schedule_backlog"} =>
          \A i \in 1..Len(orders) :
             \/ orders'[i].status = orders[i].status
             \/ orders[i].status = PLANNED /\ orders'[i].status = RELEASED ]_vars

====
